---- MODULE Spec2Model ----
(***************************************************************************)
(* Promise-function colorizer: the four semantic-token providers           *)
(* (heuristic, type-checker based, hybrid, and the legacy combined one)    *)
(* as a state machine over a syntax tree.                                  *)
(*                                                                         *)
(* The syntax tree is the result of ts.createSourceFile: a sequence of     *)
(* nodes in depth-first (pre-)order, each with a parent link; index 0 is   *)
(* the SourceFile.  Wrapper nodes that no walk of the providers looks at   *)
(* (VariableStatement, ExpressionStatement, Block, the Identifier and      *)
(* PropertyAccessExpression of a callee) are folded into their owner.      *)
(***************************************************************************)
EXTENDS Naturals, Sequences, FiniteSets

VARIABLES
    kind,                       \* which provider class the instance is
    document,                   \* the editor's current text document
    queue,                      \* requested analyses not yet started
    pc,                         \* position inside provideDocumentSemanticTokens
    current,                    \* the document argument of the running call
    promiseReturningFunctions,  \* Set<string>
    promiseReturningMethods,    \* Map<string, Set<string>>
    instanceToClass,            \* Map<string, string>
    objectToPromiseMethods,     \* Map<string, Set<string>>
    heuristicTokens,            \* Set<string> of node keys (hybrid)
    typeChecker,                \* the typeChecker field: Undefined or a checker
    tscSourceFile,              \* local: what createTypeScriptProgram returned
    tokensBuilder,              \* local: the ranges pushed so far, in push order
    heuristicPushed,            \* how many pushes the heuristic walk made
    returned,                   \* results of the calls that returned, oldest first
    calls,                      \* number of analyses requested so far
    activated,                  \* the extension is active (listener registered)
    color,                      \* the setting promiseColorizer.color
    globalValue,                \* global editor.semanticTokenColorCustomizations
    events,                     \* configuration-change events not yet delivered
    hasShownWelcome,            \* context.globalState 'hasShownWelcome'
    welcomeMessages,            \* welcome notifications shown so far
    cancellationRequested       \* calls whose token.isCancellationRequested

\* the state extension.ts works on
extensionVars == <<activated, color, globalValue, events, hasShownWelcome,
                   welcomeMessages>>

vars == <<kind, document, queue, pc, current, promiseReturningFunctions,
          promiseReturningMethods, instanceToClass, objectToPromiseMethods,
          heuristicTokens, typeChecker, tscSourceFile, tokensBuilder,
          heuristicPushed, returned, calls, extensionVars,
          cancellationRequested>>

----------------------------------------------------------------------------
(* Bounds *)

\* top-level statements of a unit built from the core statements
MaxTop == 2
\* analyses requested on one provider instance in one behaviour
MaxCalls == 2

----------------------------------------------------------------------------
(* Text *)

PromiseText == <<"P", "r", "o", "m", "i", "s", "e">>
PromiseOpenText == PromiseText \o <<"<">>
PromiseOfT == PromiseOpenText \o <<"T", ">">>
PromiseSpaceOfT == PromiseText \o <<" ", "<", "T", ">">>
StringText == <<"s", "t", "r", "i", "n", "g">>
NoText == <<>>

\* String.prototype.startsWith
startsWith(s, prefix) ==
    /\ Len(s) >= Len(prefix)
    /\ SubSeq(s, 1, Len(prefix)) = prefix

----------------------------------------------------------------------------
(* Syntax tree nodes *)

\* kind     : ts.SyntaxKind
\* parent   : index of the parent node, 0 for the SourceFile
\* text     : text of the node's name identifier (a call: the callee
\*            identifier or the accessed member name; a new-expression:
\*            the constructor identifier)
\* nameKind : "Identifier", "Other" (binding pattern, computed name,
\*            non-identifier constructor) or "None"
\* async    : the modifiers hold an AsyncKeyword
\* type     : getText() of the declared return type, NoText when there is none
\* callee   : a call's expression: "Identifier", "PropertyAccess", "Other"
\* objKind  : kind of a property access's receiver; of a property
\*            assignment's initializer
\* obj      : the text of that receiver or initializer when it is an Identifier
\* body     : "Block", "Expression" (arrow function) or "None"
\* sem      : what the type checker answers for the node (see SemType)
Base ==
    [kind |-> "Other", parent |-> 0, text |-> "", nameKind |-> "None",
     async |-> FALSE, type |-> NoText, callee |-> "None", objKind |-> "None",
     obj |-> "", body |-> "None", sem |-> "noSignature"]

FunctionDeclaration(p, name, a, t, s) ==
    [Base EXCEPT !.kind = "FunctionDeclaration", !.parent = p, !.text = name,
                 !.nameKind = IF name = "" THEN "None" ELSE "Identifier",
                 !.async = a, !.type = t, !.body = "Block", !.sem = s]

MethodDeclaration(p, name, a, t, s) ==
    [Base EXCEPT !.kind = "MethodDeclaration", !.parent = p, !.text = name,
                 !.nameKind = "Identifier", !.async = a, !.type = t,
                 !.body = "Block", !.sem = s]

ArrowFunction(p, a, t, b, s) ==
    [Base EXCEPT !.kind = "ArrowFunction", !.parent = p, !.async = a,
                 !.type = t, !.body = b, !.sem = s]

FunctionExpression(p, a, t, s) ==
    [Base EXCEPT !.kind = "FunctionExpression", !.parent = p, !.async = a,
                 !.type = t, !.body = "Block", !.sem = s]

ClassDeclaration(p, name) ==
    [Base EXCEPT !.kind = "ClassDeclaration", !.parent = p, !.text = name,
                 !.nameKind = IF name = "" THEN "None" ELSE "Identifier"]

ClassExpression(p) ==
    [Base EXCEPT !.kind = "ClassExpression", !.parent = p]

VariableDeclaration(p, name, nk) ==
    [Base EXCEPT !.kind = "VariableDeclaration", !.parent = p, !.text = name,
                 !.nameKind = nk]

ObjectLiteralExpression(p) ==
    [Base EXCEPT !.kind = "ObjectLiteralExpression", !.parent = p]

ShorthandPropertyAssignment(p, name) ==
    [Base EXCEPT !.kind = "ShorthandPropertyAssignment", !.parent = p,
                 !.text = name, !.nameKind = "Identifier"]

PropertyAssignment(p, name, ref) ==
    [Base EXCEPT !.kind = "PropertyAssignment", !.parent = p, !.text = name,
                 !.nameKind = "Identifier", !.objKind = "Identifier",
                 !.obj = ref]

NewExpression(p, ctor) ==
    [Base EXCEPT !.kind = "NewExpression", !.parent = p, !.text = ctor,
                 !.nameKind = IF ctor = "" THEN "Other" ELSE "Identifier"]

\* f(...)
CallExpression(p, name, s) ==
    [Base EXCEPT !.kind = "CallExpression", !.parent = p, !.text = name,
                 !.callee = "Identifier", !.sem = s]

\* o.m(...); o = "" stands for a receiver that is not an identifier
MethodCall(p, o, name, s) ==
    [Base EXCEPT !.kind = "CallExpression", !.parent = p, !.text = name,
                 !.callee = "PropertyAccess",
                 !.objKind = IF o = "" THEN "Other" ELSE "Identifier",
                 !.obj = o, !.sem = s]

\* f()(...): the callee is neither an identifier nor a property access
CallOfOther(p, s) ==
    [Base EXCEPT !.kind = "CallExpression", !.parent = p, !.callee = "Other",
                 !.sem = s]

ReturnStatement(p) ==
    [Base EXCEPT !.kind = "ReturnStatement", !.parent = p]

AwaitExpression(p) ==
    [Base EXCEPT !.kind = "AwaitExpression", !.parent = p]

Literal(p) ==
    [Base EXCEPT !.kind = "Other", !.parent = p]

----------------------------------------------------------------------------
(* What the type checker answers *)

\* A node's sem field is "noSignature" (the checker returns no signature),
\* "throws" (a checker call on the node throws) or the name of the return
\* type of the node's signature, one of SemTypes.
\* union        : the member types when type.isUnion(), else <<>>
\* symbol       : type.getSymbol()?.getName(), "" without a symbol
\* then         : type.getProperty('then'): "absent"; "noDeclaration" (a
\*                symbol without valueDeclaration); "callable" (its type
\*                has a call signature); "field" (it has none)
\* thenCallable : the type of the `then` member has a call signature
\*                (also for a member without valueDeclaration, as in
\*                Readonly<{ then(f): void }> or Record<'then', () => void>)
\* text         : checker.typeToString(type)
\* asyncMethods : the members of the type whose call signature returns a
\*                promise
SemType(t) ==
    CASE t = "Promise" ->
           [union |-> <<>>, symbol |-> "Promise", then |-> "callable",
            thenCallable |-> TRUE,
            text |-> PromiseOfT, asyncMethods |-> {"then"}]
      [] t = "Thenable" ->
           [union |-> <<>>, symbol |-> "Query", then |-> "callable",
            thenCallable |-> TRUE,
            text |-> <<"Q">>, asyncMethods |-> {}]
      [] t = "ThenField" ->
           [union |-> <<>>, symbol |-> "Row", then |-> "field",
            thenCallable |-> FALSE,
            text |-> <<"R">>, asyncMethods |-> {}]
      [] t = "ThenMapped" ->
           [union |-> <<>>, symbol |-> "", then |-> "noDeclaration",
            thenCallable |-> TRUE,
            text |-> <<"M">>, asyncMethods |-> {}]
      [] t = "Api" ->
           [union |-> <<>>, symbol |-> "Api", then |-> "absent",
            thenCallable |-> FALSE,
            text |-> <<"A">>, asyncMethods |-> {"m"}]
      [] t = "NumberOrPromise" ->
           [union |-> <<"Number", "Promise">>, symbol |-> "",
            then |-> "absent", thenCallable |-> FALSE,
            text |-> <<"U">>, asyncMethods |-> {}]
      [] t = "NumberOrString" ->
           [union |-> <<"Number", "Number">>, symbol |-> "",
            then |-> "absent", thenCallable |-> FALSE,
            text |-> <<"V">>, asyncMethods |-> {}]
      [] OTHER ->
           [union |-> <<>>, symbol |-> "", then |-> "absent",
            thenCallable |-> FALSE, text |-> <<"n">>, asyncMethods |-> {}]

SemTypes ==
    {"Promise", "Thenable", "ThenField", "ThenMapped", "Api",
     "NumberOrPromise", "NumberOrString", "Number"}

----------------------------------------------------------------------------
(* Source units *)

\* The statements every unit may combine freely.
\*   async function f(){}
\*   function g(){ return f() }
\*   function g(){ return 1 }
\*   class C { async m(){} }
\*   const v = new C()
\*   const v = { async m(){} }
\*   f()      g()      v.m()      h()
CoreItems ==
    { <<FunctionDeclaration(0, "f", TRUE, NoText, "Promise")>>,
      <<FunctionDeclaration(0, "g", FALSE, NoText, "Promise"),
        ReturnStatement(1), CallExpression(2, "f", "Promise")>>,
      <<FunctionDeclaration(0, "g", FALSE, NoText, "Number"),
        ReturnStatement(1), Literal(2)>>,
      <<ClassDeclaration(0, "C"),
        MethodDeclaration(1, "m", TRUE, NoText, "Promise")>>,
      <<VariableDeclaration(0, "v", "Identifier"), NewExpression(1, "C")>>,
      <<VariableDeclaration(0, "v", "Identifier"), ObjectLiteralExpression(1),
        MethodDeclaration(2, "m", TRUE, NoText, "Promise")>>,
      <<CallExpression(0, "f", "Promise")>>,
      <<CallExpression(0, "g", "Number")>>,
      <<MethodCall(0, "v", "m", "Promise")>>,
      <<CallExpression(0, "h", "Promise")>> }

\* function g(){ <nested function-like returning new Promise()> }
NestedItems ==
    { \* function g(){ function h(){ return new Promise() } }
      <<FunctionDeclaration(0, "g", FALSE, NoText, "Number"),
        FunctionDeclaration(1, "h", FALSE, NoText, "Promise"),
        ReturnStatement(2), NewExpression(3, "Promise")>>,
      \* function g(){ const h = () => { return new Promise() } }
      <<FunctionDeclaration(0, "g", FALSE, NoText, "Number"),
        VariableDeclaration(1, "h", "Identifier"),
        ArrowFunction(2, FALSE, NoText, "Block", "Promise"),
        ReturnStatement(3), NewExpression(4, "Promise")>>,
      \* function g(){ const h = function(){ return new Promise() } }
      <<FunctionDeclaration(0, "g", FALSE, NoText, "Number"),
        VariableDeclaration(1, "h", "Identifier"),
        FunctionExpression(2, FALSE, NoText, "Promise"),
        ReturnStatement(3), NewExpression(4, "Promise")>>,
      \* function g(){ const o = { n(){ return new Promise() } } }
      <<FunctionDeclaration(0, "g", FALSE, NoText, "Number"),
        VariableDeclaration(1, "o", "Identifier"), ObjectLiteralExpression(2),
        MethodDeclaration(3, "n", FALSE, NoText, "Promise"),
        ReturnStatement(4), NewExpression(5, "Promise")>>,
      \* function g(){ class K { n(){ return new Promise() } } }
      <<FunctionDeclaration(0, "g", FALSE, NoText, "Number"),
        ClassDeclaration(1, "K"),
        MethodDeclaration(2, "n", FALSE, NoText, "Promise"),
        ReturnStatement(3), NewExpression(4, "Promise")>>,
      \* function g(){ return k(() => Promise.resolve()) }
      <<FunctionDeclaration(0, "g", FALSE, NoText, "Number"),
        ReturnStatement(1), CallExpression(2, "k", "Number"),
        ArrowFunction(3, FALSE, NoText, "Expression", "Promise"),
        MethodCall(4, "Promise", "resolve", "Promise")>>,
      \* function g(){ function h(){ return 1 } return new Promise() }
      <<FunctionDeclaration(0, "g", FALSE, NoText, "Promise"),
        FunctionDeclaration(1, "h", FALSE, NoText, "Number"),
        ReturnStatement(2), Literal(3),
        ReturnStatement(1), NewExpression(5, "Promise")>>,
      \* class C { k(){ const o = { async m(){} } } }
      <<ClassDeclaration(0, "C"),
        MethodDeclaration(1, "k", FALSE, NoText, "Number"),
        VariableDeclaration(2, "o", "Identifier"), ObjectLiteralExpression(3),
        MethodDeclaration(4, "m", TRUE, NoText, "Promise")>> }

\* function definitions, one rule of the classifier at a time
FunctionItems ==
    { \* function f(): Promise<T> {}
      <<FunctionDeclaration(0, "f", FALSE, PromiseOfT, "Promise")>>,
      \* function f(): Promise { return 1 }
      <<FunctionDeclaration(0, "f", FALSE, PromiseText, "Promise"),
        ReturnStatement(1), Literal(2)>>,
      \* function g(): Promise <T> {}
      <<FunctionDeclaration(0, "g", FALSE, PromiseSpaceOfT, "Promise")>>,
      \* function g(): string {}
      <<FunctionDeclaration(0, "g", FALSE, StringText, "Number")>>,
      \* async function f(): string { return 1 }
      <<FunctionDeclaration(0, "f", TRUE, StringText, "throws"),
        ReturnStatement(1), Literal(2)>>,
      \* export default async function(){}
      <<FunctionDeclaration(0, "", TRUE, NoText, "Promise")>>,
      \* function g(){ return new Promise() }
      <<FunctionDeclaration(0, "g", FALSE, NoText, "Promise"),
        ReturnStatement(1), NewExpression(2, "Promise")>>,
      \* function g(){ return Promise.resolve() }
      <<FunctionDeclaration(0, "g", FALSE, NoText, "Promise"),
        ReturnStatement(1), MethodCall(2, "Promise", "resolve", "Promise")>>,
      \* function g(){ return await x }
      <<FunctionDeclaration(0, "g", FALSE, NoText, "Promise"),
        ReturnStatement(1), AwaitExpression(2), Literal(3)>>,
      \* function g(){ return v.m() }
      <<FunctionDeclaration(0, "g", FALSE, NoText, "NumberOrPromise"),
        ReturnStatement(1), MethodCall(2, "v", "m", "NumberOrPromise")>>,
      \* function g(){ new Promise(); return }
      <<FunctionDeclaration(0, "g", FALSE, NoText, "Number"),
        NewExpression(1, "Promise"), ReturnStatement(1)>>,
      \* function fetch(){ return 1 }
      <<FunctionDeclaration(0, "fetch", FALSE, NoText, "Number"),
        ReturnStatement(1), Literal(2)>>,
      \* function g(){ return query() }   (a thenable, known to the checker only)
      <<FunctionDeclaration(0, "g", FALSE, NoText, "Thenable"),
        ReturnStatement(1), CallExpression(2, "query", "Thenable")>>,
      \* function g(){ return frozen() }   (frozen(): Readonly<Query>, whose
      \* `then` has no valueDeclaration)
      <<FunctionDeclaration(0, "g", FALSE, NoText, "ThenMapped"),
        ReturnStatement(1), CallExpression(2, "frozen", "ThenMapped")>>,
      \* const f = async () => {}
      <<VariableDeclaration(0, "f", "Identifier"),
        ArrowFunction(1, TRUE, NoText, "Block", "Promise")>>,
      \* const g = () => new Promise()
      <<VariableDeclaration(0, "g", "Identifier"),
        ArrowFunction(1, FALSE, NoText, "Expression", "Promise"),
        NewExpression(2, "Promise")>>,
      \* const g = () => 1
      <<VariableDeclaration(0, "g", "Identifier"),
        ArrowFunction(1, FALSE, NoText, "Expression", "Number"), Literal(2)>>,
      \* const g = function(){ return new Promise() }
      <<VariableDeclaration(0, "g", "Identifier"),
        FunctionExpression(1, FALSE, NoText, "Promise"),
        ReturnStatement(2), NewExpression(3, "Promise")>>,
      \* const f = async function(): string {}
      <<VariableDeclaration(0, "f", "Identifier"),
        FunctionExpression(1, TRUE, StringText, "throws")>>,
      \* const { a } = async () => {}
      <<VariableDeclaration(0, "", "Other"),
        ArrowFunction(1, TRUE, NoText, "Block", "Promise")>>,
      \* k(async () => {})
      <<CallExpression(0, "k", "Number"),
        ArrowFunction(1, TRUE, NoText, "Block", "Promise")>>,
      \* class C { m(){ return 1 } }
      <<ClassDeclaration(0, "C"),
        MethodDeclaration(1, "m", FALSE, NoText, "Number"),
        ReturnStatement(2), Literal(3)>>,
      \* class C { m(): Promise<T> { return 1 } }
      <<ClassDeclaration(0, "C"),
        MethodDeclaration(1, "m", FALSE, PromiseOfT, "Promise"),
        ReturnStatement(2), Literal(3)>>,
      \* class v { async m(){} }
      <<ClassDeclaration(0, "v"),
        MethodDeclaration(1, "m", TRUE, NoText, "Promise")>>,
      \* const K = class { async m(){} }
      <<VariableDeclaration(0, "K", "Identifier"), ClassExpression(1),
        MethodDeclaration(2, "m", TRUE, NoText, "Promise")>> }

\* bindings and calls
BindingItems ==
    { \* const v = new D()
      <<VariableDeclaration(0, "v", "Identifier"), NewExpression(1, "D")>>,
      \* const Promise = new C()
      <<VariableDeclaration(0, "Promise", "Identifier"),
        NewExpression(1, "C")>>,
      \* const v = { f }
      <<VariableDeclaration(0, "v", "Identifier"), ObjectLiteralExpression(1),
        ShorthandPropertyAssignment(2, "f")>>,
      \* const v = { m: f }
      <<VariableDeclaration(0, "v", "Identifier"), ObjectLiteralExpression(1),
        PropertyAssignment(2, "m", "f")>>,
      \* const v = { m(){ return 1 } }
      <<VariableDeclaration(0, "v", "Identifier"), ObjectLiteralExpression(1),
        MethodDeclaration(2, "m", FALSE, NoText, "Number"),
        ReturnStatement(3), Literal(4)>>,
      \* const v = setup()
      <<VariableDeclaration(0, "v", "Identifier"),
        CallExpression(1, "setup", "Api")>>,
      \* fetch()
      <<CallExpression(0, "fetch", "Promise")>>,
      \* C.m()
      <<MethodCall(0, "C", "m", "Promise")>>,
      \* Promise.all()
      <<MethodCall(0, "Promise", "all", "Promise")>>,
      \* Promise.m()
      <<MethodCall(0, "Promise", "m", "Number")>>,
      \* console.log()
      <<MethodCall(0, "console", "log", "Number")>>,
      \* v.m() where the checker finds no promise
      <<MethodCall(0, "v", "m", "Number")>>,
      \* h() where the checker throws
      <<CallExpression(0, "h", "throws")>>,
      \* h() where the checker resolves no signature
      <<CallExpression(0, "h", "noSignature")>>,
      \* v.m().then()
      <<MethodCall(0, "", "then", "Promise"),
        MethodCall(1, "v", "m", "Promise")>>,
      \* f()()
      <<CallOfOther(0, "Promise"), CallExpression(1, "f", "Number")>> }

ExtraItems == NestedItems \cup FunctionItems \cup BindingItems

\* a statement placed behind `off` earlier nodes
Shift(frag, off) ==
    [i \in 1..Len(frag) |->
        [frag[i] EXCEPT !.parent = IF @ = 0 THEN 0 ELSE @ + off]]

\* the statements of a unit, one after the other
RECURSIVE Link(_)
Link(frags) ==
    IF frags = <<>> THEN <<>>
    ELSE LET head == Link(SubSeq(frags, 1, Len(frags) - 1))
         IN  head \o Shift(frags[Len(frags)], Len(head))

\* async function f(){ return 1 } f()
AsyncFunctionAndCall ==
    Link(<< <<FunctionDeclaration(0, "f", TRUE, NoText, "Promise"),
              ReturnStatement(1), Literal(2)>>,
            <<CallExpression(0, "f", "Promise")>> >>)

\* function g(){ return 1 } g()
PlainFunctionAndCall ==
    Link(<< <<FunctionDeclaration(0, "g", FALSE, NoText, "Number"),
              ReturnStatement(1), Literal(2)>>,
            <<CallExpression(0, "g", "Number")>> >>)

\* class C { async m(){} } const c = new C(); c.m()
ClassInstanceCall ==
    Link(<< <<ClassDeclaration(0, "C"),
              MethodDeclaration(1, "m", TRUE, NoText, "Promise")>>,
            <<VariableDeclaration(0, "c", "Identifier"),
              NewExpression(1, "C")>>,
            <<MethodCall(0, "c", "m", "Promise")>> >>)

\* function g(){ return f() } async function f(){} g()
CallerBeforeCallee ==
    Link(<< <<FunctionDeclaration(0, "g", FALSE, NoText, "Promise"),
              ReturnStatement(1), CallExpression(2, "f", "Promise")>>,
            <<FunctionDeclaration(0, "f", TRUE, NoText, "Promise")>>,
            <<CallExpression(0, "g", "Promise")>> >>)

\* function g(){ return query() }   (a thenable, known to the checker only)
CheckerOnlyFunction ==
    Link(<< <<FunctionDeclaration(0, "g", FALSE, NoText, "Thenable"),
              ReturnStatement(1), CallExpression(2, "query", "Thenable")>> >>)

\* The scenarios of the specification's section 8 and the units of three
\* statements that the classification rules need.
Scenarios ==
    { AsyncFunctionAndCall,
      PlainFunctionAndCall,
      ClassInstanceCall,
      CallerBeforeCallee,
      CheckerOnlyFunction,
      \* const s = "then"; console.log(s)
      Link(<< <<VariableDeclaration(0, "s", "Identifier"), Literal(1)>>,
              <<MethodCall(0, "console", "log", "Number"), Literal(1)>> >>),
      \* class C { m(){ return 1 } } const v = new C(); v.m()
      Link(<< <<ClassDeclaration(0, "C"),
                MethodDeclaration(1, "m", FALSE, NoText, "Number"),
                ReturnStatement(2), Literal(3)>>,
              <<VariableDeclaration(0, "v", "Identifier"),
                NewExpression(1, "C")>>,
              <<MethodCall(0, "v", "m", "Number")>> >>),
      \* v.m(); const v = new C(); class C { async m(){} }
      Link(<< <<MethodCall(0, "v", "m", "Promise")>>,
              <<VariableDeclaration(0, "v", "Identifier"),
                NewExpression(1, "C")>>,
              <<ClassDeclaration(0, "C"),
                MethodDeclaration(1, "m", TRUE, NoText, "Promise")>> >>),
      \* const v = new C(); const v = { async m(){} }; v.m()
      Link(<< <<VariableDeclaration(0, "v", "Identifier"),
                NewExpression(1, "C")>>,
              <<VariableDeclaration(0, "v", "Identifier"),
                ObjectLiteralExpression(1),
                MethodDeclaration(2, "m", TRUE, NoText, "Promise")>>,
              <<MethodCall(0, "v", "m", "Promise")>> >>),
      \* class C { async m(){} } const v = new C(); const v = new D(); v.m()
      Link(<< <<ClassDeclaration(0, "C"),
                MethodDeclaration(1, "m", TRUE, NoText, "Promise")>>,
              <<VariableDeclaration(0, "v", "Identifier"),
                NewExpression(1, "C")>>,
              <<VariableDeclaration(0, "v", "Identifier"),
                NewExpression(1, "D")>>,
              <<MethodCall(0, "v", "m", "Number")>> >>),
      \* function g(){ return 1 } { const g = async () => {} } g()
      Link(<< <<FunctionDeclaration(0, "g", FALSE, NoText, "Number"),
                ReturnStatement(1), Literal(2)>>,
              <<VariableDeclaration(0, "g", "Identifier"),
                ArrowFunction(1, TRUE, NoText, "Block", "Promise")>>,
              <<CallExpression(0, "g", "Number")>> >>) }

\* Units: up to MaxTop core statements in any order; every other
\* statement alone, before and after each core statement; the scenarios.
Units ==
    { Link(fs) : fs \in UNION { [1..n -> CoreItems] : n \in 1..MaxTop } }
    \cup { Link(<<x>>) : x \in ExtraItems }
    \cup { Link(<<x, c>>) : x \in ExtraItems, c \in CoreItems }
    \cup { Link(<<c, x>>) : x \in ExtraItems, c \in CoreItems }
    \cup Scenarios

\* what ts.createProgram does for the document: "ok"; "throws" (an
\* exception inside the try block); "noSourceFile" (program.getSourceFile
\* returns undefined)
Programs == {"ok", "throws", "noSourceFile"}

Docs == [unit : Units, program : Programs]

\* an undefined ts.SourceFile or ts.TypeChecker; a checker is written as
\* the source file of its program
Undefined == <<>>

\* no document
NoDocument == [unit |-> Undefined, program |-> "none"]

----------------------------------------------------------------------------
(* Tree access *)

\* the children of node n of unit u, in source order (ts.forEachChild)
Children(u, n) == { i \in 1..Len(u) : u[i].parent = n }

\* the first child: a return statement's expression, a variable
\* declaration's initializer, an arrow function's expression body
FirstChild(u, n) ==
    IF Children(u, n) = {} THEN 0
    ELSE CHOOSE i \in Children(u, n) : \A j \in Children(u, n) : i <= j

IsFunctionLike(nd) ==
    nd.kind \in {"FunctionDeclaration", "MethodDeclaration", "ArrowFunction",
                 "FunctionExpression"}

\* node.getStart() and node.getEnd() of the identifier that names node n:
\* offsets grow with the position of the node in the text
getStart(n) == 2 * n
getEnd(n) == 2 * n + 1

\* Map<K, V> as a function on its keys
MapHas(m, k) == k \in DOMAIN m
MapSet(m, k, v) == [x \in DOMAIN m \cup {k} |-> IF x = k THEN v ELSE m[x]]
\* map.get(k)?.has(x)
MapGetHas(m, k, x) == k \in DOMAIN m /\ x \in m[k]
EmptyMap == [x \in {} |-> {}]

\* the four registries of a provider instance
Registries(fns, methods, instances, objects) ==
    [fns |-> fns, methods |-> methods, instances |-> instances,
     objects |-> objects]

\* document.positionAt(offset), for a document that is one line of text
positionAt(offset) == [line |-> 0, character |-> offset]

\* new vscode.Range(positionAt(node.getStart()), positionAt(node.getEnd()))
\* for the identifier that names node n
Range(n) == [start |-> positionAt(getStart(n)), end |-> positionAt(getEnd(n))]

\* BaseSemanticTokenProvider.pushToken: tokensBuilder.push(range, ...)
pushToken(n, builder) == Append(builder, Range(n))

\* the parent of node n is a VariableDeclaration
ParentIsVariableDeclaration(u, n) ==
    /\ u[n].parent # 0
    /\ u[u[n].parent].kind = "VariableDeclaration"

----------------------------------------------------------------------------
(* HeuristicSemanticTokenProvider *)

\* a variant of isKnownPromiseReturningCall that does not look up
\* promiseReturningFunctions
Heuristic_isKnownPromiseReturningCall_NoFunctions(u, r, c) ==
    \/ /\ u[c].callee = "Identifier"
       /\ u[c].text = "fetch"
    \/ /\ u[c].callee = "PropertyAccess"
       /\ u[c].objKind = "Identifier"
       /\ \/ u[c].obj = "Promise"
          \/ MapGetHas(r.methods, u[c].obj, u[c].text)
          \/ /\ MapHas(r.instances, u[c].obj)
             /\ MapGetHas(r.methods, r.instances[u[c].obj], u[c].text)
          \/ MapGetHas(r.objects, u[c].obj, u[c].text)

\* a variant of isKnownPromiseReturningCall that does not look up
\* instanceToClass
Heuristic_isKnownPromiseReturningCall_NoInstances(u, r, c) ==
    \/ /\ u[c].callee = "Identifier"
       /\ \/ u[c].text = "fetch"
          \/ u[c].text \in r.fns
    \/ /\ u[c].callee = "PropertyAccess"
       /\ u[c].objKind = "Identifier"
       /\ \/ u[c].obj = "Promise"
          \/ MapGetHas(r.methods, u[c].obj, u[c].text)
          \/ MapGetHas(r.objects, u[c].obj, u[c].text)

Heuristic_isKnownPromiseReturningCall(u, r, c) ==
    \/ /\ u[c].callee = "Identifier"
       /\ \/ u[c].text = "fetch"
          \/ u[c].text \in r.fns
    \/ /\ u[c].callee = "PropertyAccess"
       /\ u[c].objKind = "Identifier"
       /\ \/ u[c].obj = "Promise"
          \/ MapGetHas(r.methods, u[c].obj, u[c].text)
          \/ /\ MapHas(r.instances, u[c].obj)
             /\ MapGetHas(r.methods, r.instances[u[c].obj], u[c].text)
          \/ MapGetHas(r.objects, u[c].obj, u[c].text)

Heuristic_isExpressionReturningPromise(u, r, e) ==
    IF /\ u[e].kind = "NewExpression"
       /\ u[e].nameKind = "Identifier"
       /\ u[e].text = "Promise"
    THEN TRUE
    ELSE IF /\ u[e].kind = "CallExpression"
            /\ u[e].callee = "PropertyAccess"
            /\ u[e].objKind = "Identifier"
            /\ u[e].obj = "Promise"
    THEN TRUE
    ELSE IF u[e].kind = "CallExpression"
    THEN Heuristic_isKnownPromiseReturningCall(u, r, e)
    ELSE u[e].kind = "AwaitExpression"

\* the local function `visit` of hasPromiseReturnPattern; its result is
\* whether the walk from n sets hasPromiseReturn
RECURSIVE Heuristic_visitReturns(_, _, _)
Heuristic_visitReturns(u, r, n) ==
    IF /\ u[n].kind = "ReturnStatement"
       /\ FirstChild(u, n) # 0
       /\ Heuristic_isExpressionReturningPromise(u, r, FirstChild(u, n))
    THEN TRUE
    ELSE IF u[n].kind \in {"FunctionDeclaration", "ArrowFunction",
                           "FunctionExpression"}
    THEN FALSE
    ELSE \E c \in Children(u, n) : Heuristic_visitReturns(u, r, c)

Heuristic_hasPromiseReturnPattern(u, r, n) ==
    IF /\ u[n].kind = "ArrowFunction"
       /\ u[n].body = "Expression"
    THEN Heuristic_isExpressionReturningPromise(u, r, FirstChild(u, n))
    ELSE IF u[n].body = "Block"
    THEN \E c \in Children(u, n) : Heuristic_visitReturns(u, r, c)
    ELSE FALSE

\* a variant of the heuristic rule that accepts only `Promise<` as the
\* start of the declared return type
Heuristic_isFunctionReturningPromise_NoBarePromise(u, r, n) ==
    IF u[n].async
    THEN TRUE
    ELSE IF /\ u[n].type # NoText
            /\ startsWith(u[n].type, PromiseOpenText)
    THEN TRUE
    ELSE Heuristic_hasPromiseReturnPattern(u, r, n)

Heuristic_isFunctionReturningPromise(u, r, n) ==
    IF u[n].async
    THEN TRUE
    ELSE IF /\ u[n].type # NoText
            /\ \/ startsWith(u[n].type, PromiseOpenText)
               \/ u[n].type = PromiseText
    THEN TRUE
    ELSE Heuristic_hasPromiseReturnPattern(u, r, n)

\* "" stands for undefined
RECURSIVE Heuristic_getContainingClassName(_, _)
Heuristic_getContainingClassName(u, n) ==
    LET current_ == u[n].parent
    IN  IF current_ = 0 THEN ""
        ELSE IF /\ u[current_].kind = "ClassDeclaration"
                /\ u[current_].nameKind # "None"
        THEN u[current_].text
        ELSE Heuristic_getContainingClassName(u, current_)

\* what collectPromiseFunctions does at node n, before it descends
Heuristic_collectPromiseFunctionsAt(u, r, n) ==
    IF ~(IsFunctionLike(u[n]) /\ Heuristic_isFunctionReturningPromise(u, r, n))
    THEN r
    ELSE IF u[n].kind = "FunctionDeclaration" /\ u[n].nameKind # "None"
    THEN [r EXCEPT !.fns = @ \cup {u[n].text}]
    ELSE IF u[n].kind = "MethodDeclaration" /\ u[n].nameKind = "Identifier"
    THEN LET className == Heuristic_getContainingClassName(u, n)
         IN  IF className = "" THEN r
             ELSE [r EXCEPT !.methods =
                     MapSet(@, className,
                            (IF MapHas(@, className) THEN @[className] ELSE {})
                               \cup {u[n].text})]
    ELSE IF /\ u[n].kind \in {"ArrowFunction", "FunctionExpression"}
            /\ ParentIsVariableDeclaration(u, n)
            /\ u[u[n].parent].nameKind = "Identifier"
    THEN [r EXCEPT !.fns = @ \cup {u[u[n].parent].text}]
    ELSE r

\* collectPromiseFunctions over the nodes n..Len(u) in depth-first order
RECURSIVE Heuristic_collectPromiseFunctions(_, _, _)
Heuristic_collectPromiseFunctions(u, r, n) ==
    IF n > Len(u) THEN r
    ELSE Heuristic_collectPromiseFunctions(
             u, Heuristic_collectPromiseFunctionsAt(u, r, n), n + 1)

\* the calls that the walk of hasPromiseReturnPattern from n hands to
\* isKnownPromiseReturningCall (through isExpressionReturningPromise)
RECURSIVE Heuristic_callsJudgedFrom(_, _, _)
Heuristic_callsJudgedFrom(u, r, n) ==
    LET e == FirstChild(u, n)
        judged == IF /\ u[n].kind = "ReturnStatement"
                     /\ e # 0
                     /\ u[e].kind = "CallExpression"
                     /\ ~(/\ u[e].callee = "PropertyAccess"
                          /\ u[e].objKind = "Identifier"
                          /\ u[e].obj = "Promise")
                  THEN {e}
                  ELSE {}
    IN  IF /\ u[n].kind = "ReturnStatement"
           /\ e # 0
           /\ Heuristic_isExpressionReturningPromise(u, r, e)
        THEN judged
        ELSE IF u[n].kind \in {"FunctionDeclaration", "ArrowFunction",
                               "FunctionExpression"}
        THEN judged
        ELSE judged \cup UNION { Heuristic_callsJudgedFrom(u, r, c) :
                                  c \in Children(u, n) }

\* the calls that isFunctionReturningPromise(n) hands to
\* isKnownPromiseReturningCall
Heuristic_callsJudgedFor(u, r, n) ==
    IF \/ u[n].async
       \/ /\ u[n].type # NoText
          /\ \/ startsWith(u[n].type, PromiseOpenText)
             \/ u[n].type = PromiseText
    THEN {}
    ELSE IF u[n].kind = "ArrowFunction" /\ u[n].body = "Expression"
    THEN LET e == FirstChild(u, n)
         IN  IF /\ u[e].kind = "CallExpression"
                /\ ~(/\ u[e].callee = "PropertyAccess"
                     /\ u[e].objKind = "Identifier"
                     /\ u[e].obj = "Promise")
             THEN {e}
             ELSE {}
    ELSE IF u[n].body = "Block"
    THEN UNION { Heuristic_callsJudgedFrom(u, r, c) : c \in Children(u, n) }
    ELSE {}

\* the calls that collectPromiseFunctions over the nodes n..Len(u) hands
\* to isKnownPromiseReturningCall
RECURSIVE Heuristic_callsJudgedByCollect(_, _, _)
Heuristic_callsJudgedByCollect(u, r, n) ==
    IF n > Len(u) THEN {}
    ELSE (IF IsFunctionLike(u[n])
          THEN Heuristic_callsJudgedFor(u, r, n)
          ELSE {})
         \cup Heuristic_callsJudgedByCollect(
                  u, Heuristic_collectPromiseFunctionsAt(u, r, n), n + 1)

RECURSIVE Heuristic_collectInstanceVariables(_, _, _)
Heuristic_collectInstanceVariables(u, r, n) ==
    IF n > Len(u) THEN r
    ELSE LET init == FirstChild(u, n)
             r1 == IF /\ u[n].kind = "VariableDeclaration"
                      /\ init # 0
                      /\ u[init].kind = "NewExpression"
                      /\ u[n].nameKind = "Identifier"
                      /\ u[init].nameKind = "Identifier"
                   THEN [r EXCEPT !.instances =
                           MapSet(@, u[n].text, u[init].text)]
                   ELSE r
         IN  Heuristic_collectInstanceVariables(u, r1, n + 1)

\* the promiseMethods set that collectObjectLiterals builds for the
\* object literal o
Heuristic_promiseMethods(u, r, o) ==
    { u[q].text : q \in
        { q \in Children(u, o) :
            \/ /\ u[q].kind = "ShorthandPropertyAssignment"
               /\ u[q].text \in r.fns
            \/ /\ u[q].kind = "PropertyAssignment"
               /\ u[q].nameKind = "Identifier"
               /\ u[q].objKind = "Identifier"
               /\ u[q].obj \in r.fns
            \/ /\ u[q].kind = "MethodDeclaration"
               /\ u[q].nameKind = "Identifier"
               /\ Heuristic_isFunctionReturningPromise(u, r, q) } }

RECURSIVE Heuristic_collectObjectLiterals(_, _, _)
Heuristic_collectObjectLiterals(u, r, n) ==
    IF n > Len(u) THEN r
    ELSE LET init == FirstChild(u, n)
             r1 == IF /\ u[n].kind = "VariableDeclaration"
                      /\ init # 0
                      /\ u[init].kind = "ObjectLiteralExpression"
                      /\ u[n].nameKind = "Identifier"
                      /\ Heuristic_promiseMethods(u, r, init) # {}
                   THEN [r EXCEPT !.objects =
                           MapSet(@, u[n].text,
                                  Heuristic_promiseMethods(u, r, init))]
                   ELSE r
         IN  Heuristic_collectObjectLiterals(u, r1, n + 1)

\* the node whose identifier `visit` reports for the definition n, 0 for none
DefinitionIdentifier(u, n) ==
    IF u[n].kind = "FunctionDeclaration" /\ u[n].nameKind # "None" THEN n
    ELSE IF u[n].kind = "MethodDeclaration" THEN n
    ELSE IF /\ u[n].kind \in {"ArrowFunction", "FunctionExpression"}
            /\ ParentIsVariableDeclaration(u, n)
    THEN u[n].parent
    ELSE 0

\* the node whose identifier `visit` reports for the call n, 0 for none
CallIdentifier(u, n) ==
    IF u[n].callee \in {"Identifier", "PropertyAccess"} THEN n ELSE 0

\* visit over the nodes n..Len(u) in depth-first order
RECURSIVE Heuristic_visit(_, _, _, _)
Heuristic_visit(u, r, n, builder) ==
    IF n > Len(u) THEN builder
    ELSE LET b1 == IF /\ IsFunctionLike(u[n])
                      /\ Heuristic_isFunctionReturningPromise(u, r, n)
                      /\ DefinitionIdentifier(u, n) # 0
                   THEN pushToken(DefinitionIdentifier(u, n), builder)
                   ELSE builder
             b2 == IF /\ u[n].kind = "CallExpression"
                      /\ Heuristic_isKnownPromiseReturningCall(u, r, n)
                      /\ CallIdentifier(u, n) # 0
                   THEN pushToken(CallIdentifier(u, n), b1)
                   ELSE b1
         IN  Heuristic_visit(u, r, n + 1, b2)

\* HeuristicSemanticTokenProvider.provideDocumentSemanticTokens run from
\* empty registries: the registries after the three collection walks
Heuristic_collect(u) ==
    Heuristic_collectObjectLiterals(u,
        Heuristic_collectInstanceVariables(u,
            Heuristic_collectPromiseFunctions(u,
                Registries({}, EmptyMap, EmptyMap, EmptyMap), 1), 1), 1)

----------------------------------------------------------------------------
(* HybridSemanticTokenProvider: its own copies of the heuristic methods *)

\* a variant of the hybrid call-level rule without the object-literal
\* route
Hybrid_isKnownPromiseReturningCall_NoObjects(u, r, c) ==
    \/ /\ u[c].callee = "Identifier"
       /\ \/ u[c].text = "fetch"
          \/ u[c].text \in r.fns
    \/ /\ u[c].callee = "PropertyAccess"
       /\ u[c].objKind = "Identifier"
       /\ \/ u[c].obj = "Promise"
          \/ MapGetHas(r.methods, u[c].obj, u[c].text)
          \/ /\ MapHas(r.instances, u[c].obj)
             /\ MapGetHas(r.methods, r.instances[u[c].obj], u[c].text)

Hybrid_isKnownPromiseReturningCall(u, r, c) ==
    \/ /\ u[c].callee = "Identifier"
       /\ \/ u[c].text = "fetch"
          \/ u[c].text \in r.fns
    \/ /\ u[c].callee = "PropertyAccess"
       /\ u[c].objKind = "Identifier"
       /\ \/ u[c].obj = "Promise"
          \/ MapGetHas(r.methods, u[c].obj, u[c].text)
          \/ /\ MapHas(r.instances, u[c].obj)
             /\ MapGetHas(r.methods, r.instances[u[c].obj], u[c].text)
          \/ MapGetHas(r.objects, u[c].obj, u[c].text)

Hybrid_isExpressionReturningPromise(u, r, e) ==
    IF /\ u[e].kind = "NewExpression"
       /\ u[e].nameKind = "Identifier"
       /\ u[e].text = "Promise"
    THEN TRUE
    ELSE IF /\ u[e].kind = "CallExpression"
            /\ u[e].callee = "PropertyAccess"
            /\ u[e].objKind = "Identifier"
            /\ u[e].obj = "Promise"
    THEN TRUE
    ELSE IF u[e].kind = "CallExpression"
    THEN Hybrid_isKnownPromiseReturningCall(u, r, e)
    ELSE u[e].kind = "AwaitExpression"

\* the local function `visit` of hasPromiseReturnPattern; its result is
\* whether the walk from n sets hasPromiseReturn
RECURSIVE Hybrid_visitReturns(_, _, _)
Hybrid_visitReturns(u, r, n) ==
    IF /\ u[n].kind = "ReturnStatement"
       /\ FirstChild(u, n) # 0
       /\ Hybrid_isExpressionReturningPromise(u, r, FirstChild(u, n))
    THEN TRUE
    ELSE IF u[n].kind \in {"FunctionDeclaration", "ArrowFunction",
                           "FunctionExpression"}
    THEN FALSE
    ELSE \E c \in Children(u, n) : Hybrid_visitReturns(u, r, c)

Hybrid_hasPromiseReturnPattern(u, r, n) ==
    IF /\ u[n].kind = "ArrowFunction"
       /\ u[n].body = "Expression"
    THEN Hybrid_isExpressionReturningPromise(u, r, FirstChild(u, n))
    ELSE IF u[n].body = "Block"
    THEN \E c \in Children(u, n) : Hybrid_visitReturns(u, r, c)
    ELSE FALSE

\* a variant of the hybrid heuristic rule that skips the async check
Hybrid_isFunctionReturningPromiseHeuristic_NoAsync(u, r, n) ==
    IF /\ u[n].type # NoText
       /\ \/ startsWith(u[n].type, PromiseOpenText)
          \/ u[n].type = PromiseText
    THEN TRUE
    ELSE Hybrid_hasPromiseReturnPattern(u, r, n)

Hybrid_isFunctionReturningPromiseHeuristic(u, r, n) ==
    IF u[n].async
    THEN TRUE
    ELSE IF /\ u[n].type # NoText
            /\ \/ startsWith(u[n].type, PromiseOpenText)
               \/ u[n].type = PromiseText
    THEN TRUE
    ELSE Hybrid_hasPromiseReturnPattern(u, r, n)

\* "" stands for undefined
RECURSIVE Hybrid_getContainingClassName(_, _)
Hybrid_getContainingClassName(u, n) ==
    LET current_ == u[n].parent
    IN  IF current_ = 0 THEN ""
        ELSE IF /\ u[current_].kind = "ClassDeclaration"
                /\ u[current_].nameKind # "None"
        THEN u[current_].text
        ELSE Hybrid_getContainingClassName(u, current_)

\* what collectPromiseFunctions does at node n, before it descends
Hybrid_collectPromiseFunctionsAt(u, r, n) ==
    IF ~(IsFunctionLike(u[n]) /\ Hybrid_isFunctionReturningPromiseHeuristic(u, r, n))
    THEN r
    ELSE IF u[n].kind = "FunctionDeclaration" /\ u[n].nameKind # "None"
    THEN [r EXCEPT !.fns = @ \cup {u[n].text}]
    ELSE IF u[n].kind = "MethodDeclaration" /\ u[n].nameKind = "Identifier"
    THEN LET className == Hybrid_getContainingClassName(u, n)
         IN  IF className = "" THEN r
             ELSE [r EXCEPT !.methods =
                     MapSet(@, className,
                            (IF MapHas(@, className) THEN @[className] ELSE {})
                               \cup {u[n].text})]
    ELSE IF /\ u[n].kind \in {"ArrowFunction", "FunctionExpression"}
            /\ ParentIsVariableDeclaration(u, n)
            /\ u[u[n].parent].nameKind = "Identifier"
    THEN [r EXCEPT !.fns = @ \cup {u[u[n].parent].text}]
    ELSE r

\* collectPromiseFunctions over the nodes n..Len(u) in depth-first order
RECURSIVE Hybrid_collectPromiseFunctions(_, _, _)
Hybrid_collectPromiseFunctions(u, r, n) ==
    IF n > Len(u) THEN r
    ELSE Hybrid_collectPromiseFunctions(
             u, Hybrid_collectPromiseFunctionsAt(u, r, n), n + 1)

RECURSIVE Hybrid_collectInstanceVariables(_, _, _)
Hybrid_collectInstanceVariables(u, r, n) ==
    IF n > Len(u) THEN r
    ELSE LET init == FirstChild(u, n)
             r1 == IF /\ u[n].kind = "VariableDeclaration"
                      /\ init # 0
                      /\ u[init].kind = "NewExpression"
                      /\ u[n].nameKind = "Identifier"
                      /\ u[init].nameKind = "Identifier"
                   THEN [r EXCEPT !.instances =
                           MapSet(@, u[n].text, u[init].text)]
                   ELSE r
         IN  Hybrid_collectInstanceVariables(u, r1, n + 1)

\* the promiseMethods set that collectObjectLiterals builds for the
\* object literal o
Hybrid_promiseMethods(u, r, o) ==
    { u[q].text : q \in
        { q \in Children(u, o) :
            \/ /\ u[q].kind = "ShorthandPropertyAssignment"
               /\ u[q].text \in r.fns
            \/ /\ u[q].kind = "PropertyAssignment"
               /\ u[q].nameKind = "Identifier"
               /\ u[q].objKind = "Identifier"
               /\ u[q].obj \in r.fns
            \/ /\ u[q].kind = "MethodDeclaration"
               /\ u[q].nameKind = "Identifier"
               /\ Hybrid_isFunctionReturningPromiseHeuristic(u, r, q) } }

RECURSIVE Hybrid_collectObjectLiterals(_, _, _)
Hybrid_collectObjectLiterals(u, r, n) ==
    IF n > Len(u) THEN r
    ELSE LET init == FirstChild(u, n)
             r1 == IF /\ u[n].kind = "VariableDeclaration"
                      /\ init # 0
                      /\ u[init].kind = "ObjectLiteralExpression"
                      /\ u[n].nameKind = "Identifier"
                      /\ Hybrid_promiseMethods(u, r, init) # {}
                   THEN [r EXCEPT !.objects =
                           MapSet(@, u[n].text,
                                  Hybrid_promiseMethods(u, r, init))]
                   ELSE r
         IN  Hybrid_collectObjectLiterals(u, r1, n + 1)

\* getNodeKey: `${node.getStart()}-${node.getEnd()}` of the identifier
\* that names node n
getNodeKey(n) == <<getStart(n), "-", getEnd(n)>>

\* visitHeuristic over the nodes n..Len(u): st holds the builder and the
\* heuristicTokens set
RECURSIVE Hybrid_visitHeuristic(_, _, _, _)
Hybrid_visitHeuristic(u, r, n, st) ==
    IF n > Len(u) THEN st
    ELSE LET defId == DefinitionIdentifier(u, n)
             callId == CallIdentifier(u, n)
             s1 == IF /\ IsFunctionLike(u[n])
                      /\ Hybrid_isFunctionReturningPromiseHeuristic(u, r, n)
                      /\ defId # 0
                   THEN [builder |-> pushToken(defId, st.builder),
                         keys |-> st.keys \cup {getNodeKey(defId)}]
                   ELSE st
             s2 == IF /\ u[n].kind = "CallExpression"
                      /\ Hybrid_isKnownPromiseReturningCall(u, r, n)
                      /\ callId # 0
                   THEN [builder |-> pushToken(callId, s1.builder),
                         keys |-> s1.keys \cup {getNodeKey(callId)}]
                   ELSE s1
         IN  Hybrid_visitHeuristic(u, r, n + 1, s2)

(* HybridSemanticTokenProvider: the type-checker methods *)

RECURSIVE Hybrid_isPromiseType(_)
Hybrid_isPromiseType(t) ==
    LET ty == SemType(t)
    IN  IF ty.union # <<>>
        THEN \E i \in 1..Len(ty.union) : Hybrid_isPromiseType(ty.union[i])
        ELSE IF ty.symbol = "Promise" THEN TRUE
        ELSE IF ty.then \in {"callable", "field"}
        THEN ty.then = "callable"
        ELSE FALSE

\* tu is the source file of the checker's program
Hybrid_isFunctionReturningPromiseTypeScript(tu, n) ==
    IF tu[n].async THEN TRUE
    ELSE IF tu[n].sem \in SemTypes
    THEN Hybrid_isPromiseType(tu[n].sem)
    ELSE FALSE

Hybrid_isPromiseReturningCallTypeScript(tu, n) ==
    IF tu[n].sem \in SemTypes
    THEN Hybrid_isPromiseType(tu[n].sem)
    ELSE FALSE

\* a variant of visitTypeScript that does not look at heuristicTokens
Hybrid_visitTypeScriptAt_NoClaimCheck(tu, keys, n) ==
    LET defId == DefinitionIdentifier(tu, n)
        callId == CallIdentifier(tu, n)
    IN  IF /\ tu[n].kind = "CallExpression"
           /\ callId # 0
           /\ Hybrid_isPromiseReturningCallTypeScript(tu, n)
        THEN callId
        ELSE IF /\ IsFunctionLike(tu[n])
                /\ defId # 0
                /\ Hybrid_isFunctionReturningPromiseTypeScript(tu, n)
        THEN defId
        ELSE 0

\* the identifierNode that visitTypeScript ends up with at node n, 0 for none
Hybrid_visitTypeScriptAt(tu, keys, n) ==
    LET defId == DefinitionIdentifier(tu, n)
        callId == CallIdentifier(tu, n)
    IN  IF /\ tu[n].kind = "CallExpression"
           /\ callId # 0
           /\ getNodeKey(callId) \notin keys
           /\ Hybrid_isPromiseReturningCallTypeScript(tu, n)
        THEN callId
        ELSE IF /\ IsFunctionLike(tu[n])
                /\ defId # 0
                /\ getNodeKey(defId) \notin keys
                /\ Hybrid_isFunctionReturningPromiseTypeScript(tu, n)
        THEN defId
        ELSE 0

\* a variant of the hybrid re-walk that submits every node twice
RECURSIVE Hybrid_visitTypeScript_Twice(_, _, _, _)
Hybrid_visitTypeScript_Twice(tu, keys, n, builder) ==
    IF n > Len(tu) THEN builder
    ELSE Hybrid_visitTypeScript_Twice(tu, keys, n + 1,
             IF Hybrid_visitTypeScriptAt(tu, keys, n) # 0
             THEN pushToken(Hybrid_visitTypeScriptAt(tu, keys, n),
                      pushToken(Hybrid_visitTypeScriptAt(tu, keys, n),
                                builder))
             ELSE builder)

RECURSIVE Hybrid_visitTypeScript(_, _, _, _)
Hybrid_visitTypeScript(tu, keys, n, builder) ==
    IF n > Len(tu) THEN builder
    ELSE Hybrid_visitTypeScript(tu, keys, n + 1,
             IF Hybrid_visitTypeScriptAt(tu, keys, n) # 0
             THEN pushToken(Hybrid_visitTypeScriptAt(tu, keys, n), builder)
             ELSE builder)

\* createTypeScriptProgram: the typeChecker field it leaves and the source
\* file it returns
Hybrid_createTypeScriptProgram(doc) ==
    IF doc.program = "throws"
    THEN [typeChecker |-> Undefined, sourceFile |-> Undefined]
    ELSE [typeChecker |-> doc.unit,
          sourceFile |-> IF doc.program = "ok" THEN doc.unit ELSE Undefined]

----------------------------------------------------------------------------
(* TscSemanticTokenProvider *)

RECURSIVE Tsc_isPromiseType(_)
Tsc_isPromiseType(t) ==
    LET ty == SemType(t)
    IN  IF ty.union # <<>>
        THEN \E i \in 1..Len(ty.union) : Tsc_isPromiseType(ty.union[i])
        ELSE IF ty.symbol = "Promise" THEN TRUE
        ELSE IF ty.then \in {"callable", "field"}
        THEN ty.then = "callable"
        ELSE FALSE

\* a variant of the type-checker rule that skips the async check
Tsc_isFunctionReturningPromise_NoAsync(tu, n) ==
    IF tu[n].sem \in SemTypes
    THEN Tsc_isPromiseType(tu[n].sem)
    ELSE FALSE

Tsc_isFunctionReturningPromise(tu, n) ==
    IF tu[n].async THEN TRUE
    ELSE IF tu[n].sem \in SemTypes
    THEN Tsc_isPromiseType(tu[n].sem)
    ELSE FALSE

Tsc_isPromiseReturningCall(tu, n) ==
    IF tu[n].sem \in SemTypes
    THEN Tsc_isPromiseType(tu[n].sem)
    ELSE FALSE

\* the identifierNode that visit ends up with at node n, 0 for none
Tsc_visitAt(tu, n) ==
    IF /\ tu[n].kind = "CallExpression"
       /\ Tsc_isPromiseReturningCall(tu, n)
       /\ CallIdentifier(tu, n) # 0
    THEN CallIdentifier(tu, n)
    ELSE IF /\ IsFunctionLike(tu[n])
            /\ Tsc_isFunctionReturningPromise(tu, n)
    THEN DefinitionIdentifier(tu, n)
    ELSE 0

\* a variant of the semantic-only walk that ends at the first node whose
\* type resolution throws
RECURSIVE Tsc_visit_StopsAtFailure(_, _, _)
Tsc_visit_StopsAtFailure(tu, n, builder) ==
    IF n > Len(tu) THEN builder
    ELSE IF tu[n].sem = "throws" /\ ~tu[n].async THEN builder
    ELSE Tsc_visit_StopsAtFailure(tu, n + 1,
             IF Tsc_visitAt(tu, n) # 0
             THEN pushToken(Tsc_visitAt(tu, n), builder)
             ELSE builder)

RECURSIVE Tsc_visit(_, _, _)
Tsc_visit(tu, n, builder) ==
    IF n > Len(tu) THEN builder
    ELSE Tsc_visit(tu, n + 1,
             IF Tsc_visitAt(tu, n) # 0
             THEN pushToken(Tsc_visitAt(tu, n), builder)
             ELSE builder)

Tsc_createTypeScriptProgram(doc) ==
    IF doc.program = "throws"
    THEN [typeChecker |-> Undefined, sourceFile |-> Undefined]
    ELSE [typeChecker |-> doc.unit,
          sourceFile |-> IF doc.program = "ok" THEN doc.unit ELSE Undefined]

----------------------------------------------------------------------------
(* DocumentSemanticTokensProvider, the legacy combined provider *)
(* tc is the typeChecker field: Undefined or the checker's source file *)

Legacy_isKnownPromiseReturningCall(u, r, c) ==
    \/ /\ u[c].callee = "Identifier"
       /\ \/ u[c].text = "fetch"
          \/ u[c].text \in r.fns
    \/ /\ u[c].callee = "PropertyAccess"
       /\ u[c].objKind = "Identifier"
       /\ \/ u[c].obj = "Promise"
          \/ MapGetHas(r.methods, u[c].obj, u[c].text)
          \/ /\ MapHas(r.instances, u[c].obj)
             /\ MapGetHas(r.methods, r.instances[u[c].obj], u[c].text)
          \/ MapGetHas(r.objects, u[c].obj, u[c].text)

Legacy_isExpressionReturningPromise(u, r, e) ==
    IF /\ u[e].kind = "NewExpression"
       /\ u[e].nameKind = "Identifier"
       /\ u[e].text = "Promise"
    THEN TRUE
    ELSE IF /\ u[e].kind = "CallExpression"
            /\ u[e].callee = "PropertyAccess"
            /\ u[e].objKind = "Identifier"
            /\ u[e].obj = "Promise"
    THEN TRUE
    ELSE IF u[e].kind = "CallExpression"
    THEN Legacy_isKnownPromiseReturningCall(u, r, e)
    ELSE u[e].kind = "AwaitExpression"

\* the local function `visit` of hasPromiseReturnStatement; its result is
\* whether the walk from n sets hasPromiseReturn
RECURSIVE Legacy_visitReturns(_, _, _)
Legacy_visitReturns(u, r, n) ==
    IF /\ u[n].kind = "ReturnStatement"
       /\ FirstChild(u, n) # 0
       /\ Legacy_isExpressionReturningPromise(u, r, FirstChild(u, n))
    THEN TRUE
    ELSE IF u[n].kind \in {"FunctionDeclaration", "ArrowFunction",
                           "FunctionExpression"}
    THEN FALSE
    ELSE \E c \in Children(u, n) : Legacy_visitReturns(u, r, c)

Legacy_hasPromiseReturnPattern(u, r, n) ==
    IF /\ u[n].kind = "ArrowFunction"
       /\ u[n].body = "Expression"
    THEN Legacy_isExpressionReturningPromise(u, r, FirstChild(u, n))
    ELSE IF u[n].body = "Block"
    THEN \E c \in Children(u, n) : Legacy_visitReturns(u, r, c)
    ELSE FALSE

\* the try block catches; a `then` symbol without a declaration gets the
\* error type, which has no call signature
RECURSIVE Legacy_isPromiseType(_, _)
Legacy_isPromiseType(tc, t) ==
    LET ty == SemType(t)
    IN  IF tc = Undefined THEN FALSE
        ELSE IF ty.symbol = "Promise" THEN TRUE
        ELSE IF ty.union # <<>>
        THEN \E i \in 1..Len(ty.union) : Legacy_isPromiseType(tc, ty.union[i])
        ELSE IF startsWith(ty.text, PromiseOpenText) \/ ty.text = PromiseText
        THEN TRUE
        ELSE IF ty.then # "absent"
        THEN ty.then = "callable"
        ELSE FALSE

\* step 4 of isFunctionReturningPromise: the return type of the
\* declaration's signature, then of the call signatures of its type
Legacy_checkerSaysPromise(tc, n) ==
    /\ tc # Undefined
    /\ n <= Len(tc)
    /\ tc[n].sem \in SemTypes
    /\ Legacy_isPromiseType(tc, tc[n].sem)

Legacy_isFunctionReturningPromise(u, r, tc, n) ==
    IF u[n].async
    THEN TRUE
    ELSE IF /\ u[n].type # NoText
            /\ \/ startsWith(u[n].type, PromiseOpenText)
               \/ u[n].type = PromiseText
    THEN TRUE
    ELSE IF Legacy_hasPromiseReturnPattern(u, r, n)
    THEN TRUE
    ELSE Legacy_checkerSaysPromise(tc, n)

\* the fast checks of isPromiseReturningCall on the collected data
Legacy_isCollectedCall(u, r, c) ==
    \/ /\ u[c].callee = "Identifier"
       /\ (u[c].text = "fetch" \/ u[c].text \in r.fns)
    \/ /\ u[c].callee = "PropertyAccess"
       /\ u[c].objKind = "Identifier"
       /\ \/ MapGetHas(r.methods, u[c].obj, u[c].text)
          \/ /\ MapHas(r.instances, u[c].obj)
             /\ MapGetHas(r.methods, r.instances[u[c].obj], u[c].text)
          \/ MapGetHas(r.objects, u[c].obj, u[c].text)
          \/ u[c].obj = "Promise"

\* isPromiseReturningCall reaches its "Cache this for future use" lines
Legacy_cachesCall(u, r, tc, c) ==
    /\ ~Legacy_isCollectedCall(u, r, c)
    /\ u[c].callee = "PropertyAccess"
    /\ u[c].objKind = "Identifier"
    /\ ~MapHas(r.objects, u[c].obj)
    /\ Legacy_checkerSaysPromise(tc, c)

Legacy_isPromiseReturningCall(u, r, tc, c) ==
    \/ Legacy_isCollectedCall(u, r, c)
    \/ Legacy_cachesCall(u, r, tc, c)
    \/ Legacy_checkerSaysPromise(tc, c)

\* the registries after isPromiseReturningCall ran on the call c
Legacy_afterCall(u, r, tc, c) ==
    IF Legacy_cachesCall(u, r, tc, c)
    THEN [r EXCEPT !.objects = MapSet(@, u[c].obj, {u[c].text})]
    ELSE r

\* "" stands for undefined
RECURSIVE Legacy_getContainingClassName(_, _)
Legacy_getContainingClassName(u, n) ==
    LET current_ == u[n].parent
    IN  IF current_ = 0 THEN ""
        ELSE IF /\ u[current_].kind = "ClassDeclaration"
                /\ u[current_].nameKind # "None"
        THEN u[current_].text
        ELSE Legacy_getContainingClassName(u, current_)

\* what collectPromiseFunctions does at node n, before it descends
Legacy_collectPromiseFunctionsAt(u, r, tc, n) ==
    IF ~(IsFunctionLike(u[n]) /\ Legacy_isFunctionReturningPromise(u, r, tc, n))
    THEN r
    ELSE IF u[n].kind = "FunctionDeclaration" /\ u[n].nameKind # "None"
    THEN [r EXCEPT !.fns = @ \cup {u[n].text}]
    ELSE IF u[n].kind = "MethodDeclaration" /\ u[n].nameKind = "Identifier"
    THEN LET className == Legacy_getContainingClassName(u, n)
         IN  IF className = "" THEN r
             ELSE [r EXCEPT !.methods =
                     MapSet(@, className,
                            (IF MapHas(@, className) THEN @[className] ELSE {})
                               \cup {u[n].text})]
    ELSE IF /\ u[n].kind \in {"ArrowFunction", "FunctionExpression"}
            /\ ParentIsVariableDeclaration(u, n)
            /\ u[u[n].parent].nameKind = "Identifier"
    THEN [r EXCEPT !.fns = @ \cup {u[u[n].parent].text}]
    ELSE r

\* collectPromiseFunctions over the nodes n..Len(u) in depth-first order
RECURSIVE Legacy_collectPromiseFunctions(_, _, _, _)
Legacy_collectPromiseFunctions(u, r, tc, n) ==
    IF n > Len(u) THEN r
    ELSE Legacy_collectPromiseFunctions(
             u, Legacy_collectPromiseFunctionsAt(u, r, tc, n), tc, n + 1)

RECURSIVE Legacy_collectInstanceVariables(_, _, _)
Legacy_collectInstanceVariables(u, r, n) ==
    IF n > Len(u) THEN r
    ELSE LET init == FirstChild(u, n)
             r1 == IF /\ u[n].kind = "VariableDeclaration"
                      /\ init # 0
                      /\ u[init].kind = "NewExpression"
                      /\ u[n].nameKind = "Identifier"
                      /\ u[init].nameKind = "Identifier"
                   THEN [r EXCEPT !.instances =
                           MapSet(@, u[n].text, u[init].text)]
                   ELSE r
         IN  Legacy_collectInstanceVariables(u, r1, n + 1)

\* getAsyncMethodsFromReturnType for the call c
Legacy_getAsyncMethodsFromReturnType(tc, c) ==
    IF tc = Undefined \/ c > Len(tc) THEN {}
    ELSE IF tc[c].sem \notin SemTypes THEN {}
    ELSE { m \in SemType(tc[c].sem).asyncMethods : m # "constructor" }

Legacy_promiseMethods(u, r, tc, o) ==
    { u[q].text : q \in
        { q \in Children(u, o) :
            \/ /\ u[q].kind = "PropertyAssignment"
               /\ u[q].nameKind = "Identifier"
               /\ u[q].objKind = "Identifier"
               /\ u[q].obj \in r.fns
            \/ /\ u[q].kind = "ShorthandPropertyAssignment"
               /\ u[q].text \in r.fns
            \/ /\ u[q].kind = "MethodDeclaration"
               /\ u[q].nameKind = "Identifier"
               /\ Legacy_isFunctionReturningPromise(u, r, tc, q) } }

\* what collectObjectLiterals does at the variable declaration n
Legacy_collectObjectLiteralsAt(u, r, tc, n) ==
    LET init == FirstChild(u, n)
    IN  IF ~(u[n].kind = "VariableDeclaration" /\ init # 0) THEN r
        ELSE IF u[init].kind = "ObjectLiteralExpression"
        THEN IF /\ u[n].nameKind = "Identifier"
                /\ Legacy_promiseMethods(u, r, tc, init) # {}
             THEN [r EXCEPT !.objects =
                     MapSet(@, u[n].text, Legacy_promiseMethods(u, r, tc, init))]
             ELSE r
        ELSE IF /\ u[init].kind = "CallExpression"
                /\ u[n].nameKind = "Identifier"
                /\ ~(u[init].callee = "PropertyAccess"
                       /\ u[init].objKind # "Identifier")
                /\ Legacy_getAsyncMethodsFromReturnType(tc, init) # {}
        THEN [r EXCEPT !.objects =
                MapSet(@, u[n].text,
                       Legacy_getAsyncMethodsFromReturnType(tc, init))]
        ELSE r

RECURSIVE Legacy_collectObjectLiterals(_, _, _, _)
Legacy_collectObjectLiterals(u, r, tc, n) ==
    IF n > Len(u) THEN r
    ELSE Legacy_collectObjectLiterals(
             u, Legacy_collectObjectLiteralsAt(u, r, tc, n), tc, n + 1)

\* visit over the nodes n..Len(u): st holds the builder and the registries
RECURSIVE Legacy_visit(_, _, _, _)
Legacy_visit(u, tc, n, st) ==
    IF n > Len(u) THEN st
    ELSE LET b1 == IF /\ IsFunctionLike(u[n])
                      /\ Legacy_isFunctionReturningPromise(u, st.r, tc, n)
                      /\ DefinitionIdentifier(u, n) # 0
                   THEN pushToken(DefinitionIdentifier(u, n), st.builder)
                   ELSE st.builder
             b2 == IF /\ u[n].kind = "CallExpression"
                      /\ Legacy_isPromiseReturningCall(u, st.r, tc, n)
                      /\ CallIdentifier(u, n) # 0
                   THEN pushToken(CallIdentifier(u, n), b1)
                   ELSE b1
             r2 == IF u[n].kind = "CallExpression"
                   THEN Legacy_afterCall(u, st.r, tc, n)
                   ELSE st.r
         IN  Legacy_visit(u, tc, n + 1, [builder |-> b2, r |-> r2])

\* createTypeScriptProgram: the typeChecker field it leaves
Legacy_createTypeScriptProgram(doc) ==
    IF doc.program = "throws" THEN Undefined ELSE doc.unit

----------------------------------------------------------------------------
(* The provider instance and its calls.  provideDocumentSemanticTokens is  *)
(* an async method without an await, so a call runs from its first line to *)
(* its return before the next requested call starts; pc is the running     *)
(* call's position.                                                        *)

Kinds == {"heuristic", "tsc", "hybrid", "legacy"}

\* the registries as one record, and their assignment
Regs ==
    Registries(promiseReturningFunctions, promiseReturningMethods,
               instanceToClass, objectToPromiseMethods)

SetRegs(r) ==
    /\ promiseReturningFunctions' = r.fns
    /\ promiseReturningMethods' = r.methods
    /\ instanceToClass' = r.instances
    /\ objectToPromiseMethods' = r.objects

ClearedRegs == Registries({}, EmptyMap, EmptyMap, EmptyMap)

\* the state after `new XxxSemanticTokenProvider()` (extension.ts activate)
InitProvider ==
    /\ kind \in Kinds
    /\ queue = <<>>
    /\ pc = "idle"
    /\ current = NoDocument
    /\ promiseReturningFunctions = {}
    /\ promiseReturningMethods = EmptyMap
    /\ instanceToClass = EmptyMap
    /\ objectToPromiseMethods = EmptyMap
    /\ heuristicTokens = {}
    /\ typeChecker = Undefined
    /\ tscSourceFile = Undefined
    /\ tokensBuilder = <<>>
    /\ heuristicPushed = 0
    /\ returned = <<>>
    /\ calls = 0
    /\ cancellationRequested = {}

\* the editor asks the registered provider for the tokens of the document
Request ==
    /\ calls < MaxCalls
    /\ queue' = Append(queue, document)
    /\ calls' = calls + 1
    /\ UNCHANGED <<kind, document, pc, current, promiseReturningFunctions,
                   promiseReturningMethods, instanceToClass,
                   objectToPromiseMethods, heuristicTokens, typeChecker,
                   tscSourceFile, tokensBuilder, heuristicPushed, returned>>
    /\ UNCHANGED extensionVars
    /\ UNCHANGED cancellationRequested

(* HeuristicSemanticTokenProvider.provideDocumentSemanticTokens *)

\* a variant of the heuristic provider's entry that keeps the registries
\* of the previous call
Heuristic_Clear_KeepsRegistries ==
    /\ kind = "heuristic"
    /\ pc = "idle"
    /\ queue # <<>>
    /\ current' = Head(queue)
    /\ queue' = Tail(queue)
    /\ tokensBuilder' = <<>>
    /\ pc' = "collectPromiseFunctions"
    /\ UNCHANGED <<kind, document, promiseReturningFunctions,
                   promiseReturningMethods, instanceToClass,
                   objectToPromiseMethods, heuristicTokens, typeChecker,
                   tscSourceFile, heuristicPushed, returned, calls>>
    /\ UNCHANGED extensionVars
    /\ UNCHANGED cancellationRequested

\* the clear() calls, new SemanticTokensBuilder, ts.createSourceFile
Heuristic_Clear ==
    /\ kind = "heuristic"
    /\ pc = "idle"
    /\ queue # <<>>
    /\ current' = Head(queue)
    /\ queue' = Tail(queue)
    /\ SetRegs(ClearedRegs)
    /\ tokensBuilder' = <<>>
    /\ pc' = "collectPromiseFunctions"
    /\ UNCHANGED <<kind, document, heuristicTokens, typeChecker,
                   tscSourceFile, heuristicPushed, returned, calls>>
    /\ UNCHANGED extensionVars
    /\ UNCHANGED cancellationRequested

Heuristic_CollectPromiseFunctions ==
    /\ kind = "heuristic"
    /\ pc = "collectPromiseFunctions"
    /\ SetRegs(Heuristic_collectPromiseFunctions(current.unit, Regs, 1))
    /\ pc' = "collectInstanceVariables"
    /\ UNCHANGED <<kind, document, queue, current, heuristicTokens,
                   typeChecker, tscSourceFile, tokensBuilder,
                   heuristicPushed, returned, calls>>
    /\ UNCHANGED extensionVars
    /\ UNCHANGED cancellationRequested

Heuristic_CollectInstanceVariables ==
    /\ kind = "heuristic"
    /\ pc = "collectInstanceVariables"
    /\ SetRegs(Heuristic_collectInstanceVariables(current.unit, Regs, 1))
    /\ pc' = "collectObjectLiterals"
    /\ UNCHANGED <<kind, document, queue, current, heuristicTokens,
                   typeChecker, tscSourceFile, tokensBuilder,
                   heuristicPushed, returned, calls>>
    /\ UNCHANGED extensionVars
    /\ UNCHANGED cancellationRequested

Heuristic_CollectObjectLiterals ==
    /\ kind = "heuristic"
    /\ pc = "collectObjectLiterals"
    /\ SetRegs(Heuristic_collectObjectLiterals(current.unit, Regs, 1))
    /\ pc' = "visit"
    /\ UNCHANGED <<kind, document, queue, current, heuristicTokens,
                   typeChecker, tscSourceFile, tokensBuilder,
                   heuristicPushed, returned, calls>>
    /\ UNCHANGED extensionVars
    /\ UNCHANGED cancellationRequested

Heuristic_Visit ==
    /\ kind = "heuristic"
    /\ pc = "visit"
    /\ tokensBuilder' = Heuristic_visit(current.unit, Regs, 1, tokensBuilder)
    /\ pc' = "return"
    /\ UNCHANGED <<kind, document, queue, current, promiseReturningFunctions,
                   promiseReturningMethods, instanceToClass,
                   objectToPromiseMethods, heuristicTokens, typeChecker,
                   tscSourceFile, heuristicPushed, returned, calls>>
    /\ UNCHANGED extensionVars
    /\ UNCHANGED cancellationRequested

\* return tokensBuilder.build(); `pending` notes how many further requests
\* were waiting when the call returned
Heuristic_Return ==
    /\ kind = "heuristic"
    /\ pc = "return"
    /\ returned' = Append(returned, [document |-> current,
                                     tokens |-> tokensBuilder,
                                     pending |-> Len(queue)])
    /\ pc' = "idle"
    /\ current' = NoDocument
    /\ tokensBuilder' = <<>>
    /\ tscSourceFile' = Undefined
    /\ heuristicPushed' = 0
    /\ UNCHANGED <<kind, document, queue, promiseReturningFunctions,
                   promiseReturningMethods, instanceToClass,
                   objectToPromiseMethods, heuristicTokens, typeChecker,
                   calls>>
    /\ UNCHANGED extensionVars
    /\ UNCHANGED cancellationRequested

(* HybridSemanticTokenProvider.provideDocumentSemanticTokens *)

\* a variant of the hybrid provider's entry that keeps the heuristicTokens
\* of the previous call
Hybrid_Clear_KeepsHeuristicTokens ==
    /\ kind = "hybrid"
    /\ pc = "idle"
    /\ queue # <<>>
    /\ current' = Head(queue)
    /\ queue' = Tail(queue)
    /\ SetRegs(ClearedRegs)
    /\ typeChecker' = Undefined
    /\ tokensBuilder' = <<>>
    /\ pc' = "collectPromiseFunctions"
    /\ UNCHANGED <<kind, document, heuristicTokens, tscSourceFile,
                   heuristicPushed, returned, calls>>
    /\ UNCHANGED extensionVars
    /\ UNCHANGED cancellationRequested

Hybrid_Clear ==
    /\ kind = "hybrid"
    /\ pc = "idle"
    /\ queue # <<>>
    /\ current' = Head(queue)
    /\ queue' = Tail(queue)
    /\ SetRegs(ClearedRegs)
    /\ heuristicTokens' = {}
    /\ typeChecker' = Undefined
    /\ tokensBuilder' = <<>>
    /\ pc' = "collectPromiseFunctions"
    /\ UNCHANGED <<kind, document, tscSourceFile, heuristicPushed, returned,
                   calls>>
    /\ UNCHANGED extensionVars
    /\ UNCHANGED cancellationRequested

Hybrid_CollectPromiseFunctions ==
    /\ kind = "hybrid"
    /\ pc = "collectPromiseFunctions"
    /\ SetRegs(Hybrid_collectPromiseFunctions(current.unit, Regs, 1))
    /\ pc' = "collectInstanceVariables"
    /\ UNCHANGED <<kind, document, queue, current, heuristicTokens,
                   typeChecker, tscSourceFile, tokensBuilder,
                   heuristicPushed, returned, calls>>
    /\ UNCHANGED extensionVars
    /\ UNCHANGED cancellationRequested

Hybrid_CollectInstanceVariables ==
    /\ kind = "hybrid"
    /\ pc = "collectInstanceVariables"
    /\ SetRegs(Hybrid_collectInstanceVariables(current.unit, Regs, 1))
    /\ pc' = "collectObjectLiterals"
    /\ UNCHANGED <<kind, document, queue, current, heuristicTokens,
                   typeChecker, tscSourceFile, tokensBuilder,
                   heuristicPushed, returned, calls>>
    /\ UNCHANGED extensionVars
    /\ UNCHANGED cancellationRequested

Hybrid_CollectObjectLiterals ==
    /\ kind = "hybrid"
    /\ pc = "collectObjectLiterals"
    /\ SetRegs(Hybrid_collectObjectLiterals(current.unit, Regs, 1))
    /\ pc' = "visitHeuristic"
    /\ UNCHANGED <<kind, document, queue, current, heuristicTokens,
                   typeChecker, tscSourceFile, tokensBuilder,
                   heuristicPushed, returned, calls>>
    /\ UNCHANGED extensionVars
    /\ UNCHANGED cancellationRequested

\* Phase 1 ends with visitHeuristic
Hybrid_VisitHeuristic ==
    /\ kind = "hybrid"
    /\ pc = "visitHeuristic"
    /\ LET st == Hybrid_visitHeuristic(current.unit, Regs, 1,
                     [builder |-> tokensBuilder, keys |-> heuristicTokens])
       IN  /\ tokensBuilder' = st.builder
           /\ heuristicTokens' = st.keys
           /\ heuristicPushed' = Len(st.builder)
    /\ pc' = "createTypeScriptProgram"
    /\ UNCHANGED <<kind, document, queue, current, promiseReturningFunctions,
                   promiseReturningMethods, instanceToClass,
                   objectToPromiseMethods, typeChecker, tscSourceFile,
                   returned, calls>>
    /\ UNCHANGED extensionVars
    /\ UNCHANGED cancellationRequested

\* Phase 2, and the test `tscSourceFile && this.typeChecker`
Hybrid_CreateTypeScriptProgram ==
    /\ kind = "hybrid"
    /\ pc = "createTypeScriptProgram"
    /\ LET res == Hybrid_createTypeScriptProgram(current)
       IN  /\ typeChecker' = res.typeChecker
           /\ tscSourceFile' = res.sourceFile
           /\ pc' = IF res.sourceFile # Undefined /\ res.typeChecker # Undefined
                    THEN "visitTypeScript"
                    ELSE "return"
    /\ UNCHANGED <<kind, document, queue, current, promiseReturningFunctions,
                   promiseReturningMethods, instanceToClass,
                   objectToPromiseMethods, heuristicTokens, tokensBuilder,
                   heuristicPushed, returned, calls>>
    /\ UNCHANGED extensionVars
    /\ UNCHANGED cancellationRequested

\* Phase 3
Hybrid_VisitTypeScript ==
    /\ kind = "hybrid"
    /\ pc = "visitTypeScript"
    /\ tokensBuilder' = Hybrid_visitTypeScript(tscSourceFile, heuristicTokens,
                                               1, tokensBuilder)
    /\ pc' = "return"
    /\ UNCHANGED <<kind, document, queue, current, promiseReturningFunctions,
                   promiseReturningMethods, instanceToClass,
                   objectToPromiseMethods, heuristicTokens, typeChecker,
                   tscSourceFile, heuristicPushed, returned, calls>>
    /\ UNCHANGED extensionVars
    /\ UNCHANGED cancellationRequested

\* return tokensBuilder.build()
Hybrid_Return ==
    /\ kind = "hybrid"
    /\ pc = "return"
    /\ returned' = Append(returned, [document |-> current,
                                     tokens |-> tokensBuilder,
                                     pending |-> Len(queue)])
    /\ pc' = "idle"
    /\ current' = NoDocument
    /\ tokensBuilder' = <<>>
    /\ tscSourceFile' = Undefined
    /\ heuristicPushed' = 0
    /\ UNCHANGED <<kind, document, queue, promiseReturningFunctions,
                   promiseReturningMethods, instanceToClass,
                   objectToPromiseMethods, heuristicTokens, typeChecker,
                   calls>>
    /\ UNCHANGED extensionVars
    /\ UNCHANGED cancellationRequested

(* TscSemanticTokenProvider.provideDocumentSemanticTokens *)

\* new SemanticTokensBuilder, createTypeScriptProgram and the test
\* `!sourceFile || !this.typeChecker`
\* a variant of the semantic-only provider's entry whose
\* createTypeScriptProgram has no try/catch: the exception of
\* ts.createProgram rejects the promise of the call
Tsc_CreateTypeScriptProgram_NoCatch ==
    /\ kind = "tsc"
    /\ pc = "idle"
    /\ queue # <<>>
    /\ current' = Head(queue)
    /\ queue' = Tail(queue)
    /\ tokensBuilder' = <<>>
    /\ LET res == Tsc_createTypeScriptProgram(Head(queue))
       IN  /\ typeChecker' = res.typeChecker
           /\ tscSourceFile' = res.sourceFile
           /\ pc' = IF Head(queue).program = "throws"
                    THEN "rejected"
                    ELSE IF res.sourceFile = Undefined
                         THEN "return"
                         ELSE "visit"
    /\ UNCHANGED <<kind, document, promiseReturningFunctions,
                   promiseReturningMethods, instanceToClass,
                   objectToPromiseMethods, heuristicTokens, heuristicPushed,
                   returned, calls>>
    /\ UNCHANGED extensionVars
    /\ UNCHANGED cancellationRequested

Tsc_CreateTypeScriptProgram ==
    /\ kind = "tsc"
    /\ pc = "idle"
    /\ queue # <<>>
    /\ current' = Head(queue)
    /\ queue' = Tail(queue)
    /\ tokensBuilder' = <<>>
    /\ LET res == Tsc_createTypeScriptProgram(Head(queue))
       IN  /\ typeChecker' = res.typeChecker
           /\ tscSourceFile' = res.sourceFile
           /\ pc' = IF res.sourceFile = Undefined \/ res.typeChecker = Undefined
                    THEN "return"
                    ELSE "visit"
    /\ UNCHANGED <<kind, document, promiseReturningFunctions,
                   promiseReturningMethods, instanceToClass,
                   objectToPromiseMethods, heuristicTokens, heuristicPushed,
                   returned, calls>>
    /\ UNCHANGED extensionVars
    /\ UNCHANGED cancellationRequested

Tsc_Visit ==
    /\ kind = "tsc"
    /\ pc = "visit"
    /\ tokensBuilder' = Tsc_visit(tscSourceFile, 1, tokensBuilder)
    /\ pc' = "return"
    /\ UNCHANGED <<kind, document, queue, current, promiseReturningFunctions,
                   promiseReturningMethods, instanceToClass,
                   objectToPromiseMethods, heuristicTokens, typeChecker,
                   tscSourceFile, heuristicPushed, returned, calls>>
    /\ UNCHANGED extensionVars
    /\ UNCHANGED cancellationRequested

\* return tokensBuilder.build()
Tsc_Return ==
    /\ kind = "tsc"
    /\ pc = "return"
    /\ returned' = Append(returned, [document |-> current,
                                     tokens |-> tokensBuilder,
                                     pending |-> Len(queue)])
    /\ pc' = "idle"
    /\ current' = NoDocument
    /\ tokensBuilder' = <<>>
    /\ tscSourceFile' = Undefined
    /\ heuristicPushed' = 0
    /\ UNCHANGED <<kind, document, queue, promiseReturningFunctions,
                   promiseReturningMethods, instanceToClass,
                   objectToPromiseMethods, heuristicTokens, typeChecker,
                   calls>>
    /\ UNCHANGED extensionVars
    /\ UNCHANGED cancellationRequested

(* DocumentSemanticTokensProvider.provideDocumentSemanticTokens (legacy) *)

\* a variant of the legacy provider's entry that keeps the registries of
\* the previous call
Legacy_Clear_KeepsRegistries ==
    /\ kind = "legacy"
    /\ pc = "idle"
    /\ queue # <<>>
    /\ current' = Head(queue)
    /\ queue' = Tail(queue)
    /\ tokensBuilder' = <<>>
    /\ pc' = "createTypeScriptProgram"
    /\ UNCHANGED <<kind, document, promiseReturningFunctions,
                   promiseReturningMethods, instanceToClass,
                   objectToPromiseMethods, heuristicTokens, typeChecker,
                   tscSourceFile, heuristicPushed, returned, calls>>
    /\ UNCHANGED extensionVars
    /\ UNCHANGED cancellationRequested

\* the clear() calls and new SemanticTokensBuilder
Legacy_Clear ==
    /\ kind = "legacy"
    /\ pc = "idle"
    /\ queue # <<>>
    /\ current' = Head(queue)
    /\ queue' = Tail(queue)
    /\ SetRegs(ClearedRegs)
    /\ tokensBuilder' = <<>>
    /\ pc' = "createTypeScriptProgram"
    /\ UNCHANGED <<kind, document, heuristicTokens, typeChecker,
                   tscSourceFile, heuristicPushed, returned, calls>>
    /\ UNCHANGED extensionVars
    /\ UNCHANGED cancellationRequested

Legacy_CreateTypeScriptProgram ==
    /\ kind = "legacy"
    /\ pc = "createTypeScriptProgram"
    /\ typeChecker' = Legacy_createTypeScriptProgram(current)
    /\ pc' = "collectPromiseFunctions"
    /\ UNCHANGED <<kind, document, queue, current, promiseReturningFunctions,
                   promiseReturningMethods, instanceToClass,
                   objectToPromiseMethods, heuristicTokens, tscSourceFile,
                   tokensBuilder, heuristicPushed, returned, calls>>
    /\ UNCHANGED extensionVars
    /\ UNCHANGED cancellationRequested

Legacy_CollectPromiseFunctions ==
    /\ kind = "legacy"
    /\ pc = "collectPromiseFunctions"
    /\ SetRegs(Legacy_collectPromiseFunctions(current.unit, Regs, typeChecker, 1))
    /\ pc' = "collectInstanceVariables"
    /\ UNCHANGED <<kind, document, queue, current, heuristicTokens,
                   typeChecker, tscSourceFile, tokensBuilder,
                   heuristicPushed, returned, calls>>
    /\ UNCHANGED extensionVars
    /\ UNCHANGED cancellationRequested

Legacy_CollectInstanceVariables ==
    /\ kind = "legacy"
    /\ pc = "collectInstanceVariables"
    /\ SetRegs(Legacy_collectInstanceVariables(current.unit, Regs, 1))
    /\ pc' = "collectObjectLiterals"
    /\ UNCHANGED <<kind, document, queue, current, heuristicTokens,
                   typeChecker, tscSourceFile, tokensBuilder,
                   heuristicPushed, returned, calls>>
    /\ UNCHANGED extensionVars
    /\ UNCHANGED cancellationRequested

Legacy_CollectObjectLiterals ==
    /\ kind = "legacy"
    /\ pc = "collectObjectLiterals"
    /\ SetRegs(Legacy_collectObjectLiterals(current.unit, Regs, typeChecker, 1))
    /\ pc' = "visit"
    /\ UNCHANGED <<kind, document, queue, current, heuristicTokens,
                   typeChecker, tscSourceFile, tokensBuilder,
                   heuristicPushed, returned, calls>>
    /\ UNCHANGED extensionVars
    /\ UNCHANGED cancellationRequested

\* visit, with the entries isPromiseReturningCall caches on the way
Legacy_Visit ==
    /\ kind = "legacy"
    /\ pc = "visit"
    /\ LET st == Legacy_visit(current.unit, typeChecker, 1,
                              [builder |-> tokensBuilder, r |-> Regs])
       IN  /\ tokensBuilder' = st.builder
           /\ SetRegs(st.r)
    /\ pc' = "return"
    /\ UNCHANGED <<kind, document, queue, current, heuristicTokens,
                   typeChecker, tscSourceFile, heuristicPushed, returned,
                   calls>>
    /\ UNCHANGED extensionVars
    /\ UNCHANGED cancellationRequested

\* return tokensBuilder.build()
Legacy_Return ==
    /\ kind = "legacy"
    /\ pc = "return"
    /\ returned' = Append(returned, [document |-> current,
                                     tokens |-> tokensBuilder,
                                     pending |-> Len(queue)])
    /\ pc' = "idle"
    /\ current' = NoDocument
    /\ tokensBuilder' = <<>>
    /\ tscSourceFile' = Undefined
    /\ heuristicPushed' = 0
    /\ UNCHANGED <<kind, document, queue, promiseReturningFunctions,
                   promiseReturningMethods, instanceToClass,
                   objectToPromiseMethods, heuristicTokens, typeChecker,
                   calls>>
    /\ UNCHANGED extensionVars
    /\ UNCHANGED cancellationRequested

----------------------------------------------------------------------------
(* extension.ts: the color setting and the editor's customizations *)

\* configuration-change events the listener has not handled, at most
MaxEvents == 2

\* values of promiseColorizer.color; "" is the empty or unreadable value
Colors == {"#AF69EE", "#FF0000"}
DefaultColor == "#AF69EE"

\* The global value of editor.semanticTokenColorCustomizations: an object
\* with any of the keys enabled, rules and a theme block; rules has any
\* of the entries promiseFunction and function.  The empty object also
\* stands for no global value (`globalValue || {}`).
GlobalValues ==
    LET ruleKeys == {"promiseFunction", "function"}
        rulesValues == UNION { [D -> Colors \cup {"#808080"}] :
                               D \in SUBSET ruleKeys }
        topKeys == {"enabled", "rules", "[Monokai]"}
    IN  { [k \in D |-> CASE k = "rules" -> r
                        [] k = "enabled" -> b
                        [] OTHER -> [rules |-> [comment |-> "#808080"]]] :
          D \in SUBSET topKeys, r \in rulesValues, b \in BOOLEAN }

\* a variant of updateColorConfiguration that writes its rule without
\* spreading the existing value
updateColorConfiguration_NoSpread(c, g) ==
    IF c = ""
    THEN g
    ELSE MapSet(EmptyMap, "rules", MapSet(EmptyMap, "promiseFunction", c))

\* a variant of updateColorConfiguration without the `!colorValue` return
updateColorConfiguration_NoGuard(c, g) ==
    MapSet(g, "rules",
           MapSet(IF MapHas(g, "rules") THEN g["rules"] ELSE EmptyMap,
                  "promiseFunction", c))

\* updateColorConfiguration: the global value after the call, for the
\* color c read from the setting and the global value g read by inspect
updateColorConfiguration(c, g) ==
    IF c = ""
    THEN g
    ELSE MapSet(g, "rules",
                MapSet(IF MapHas(g, "rules") THEN g["rules"] ELSE EmptyMap,
                       "promiseFunction", c))

\* the rule the extension owns: rules.promiseFunction, "" when absent
PromiseFunctionRule(g) ==
    IF MapHas(g, "rules") /\ MapHas(g["rules"], "promiseFunction")
    THEN g["rules"]["promiseFunction"]
    ELSE ""

\* the event VS Code raises for a write that changed the global value
UpdateEvents(g, h) ==
    IF g = h THEN <<>> ELSE <<"editor.semanticTokenColorCustomizations">>

\* a variant of activate() whose showWelcomeMessage does not store
\* 'hasShownWelcome' in the global state
Activate_WelcomeNotStored ==
    /\ ~activated
    /\ activated' = TRUE
    /\ welcomeMessages' = IF hasShownWelcome
                          THEN welcomeMessages
                          ELSE welcomeMessages + 1
    /\ globalValue' = updateColorConfiguration(color, globalValue)
    /\ events' = UpdateEvents(globalValue, globalValue')
    /\ UNCHANGED <<cancellationRequested, kind, document, queue, pc,
                   current,
                   promiseReturningFunctions, promiseReturningMethods,
                   instanceToClass, objectToPromiseMethods, heuristicTokens,
                   typeChecker, tscSourceFile, tokensBuilder,
                   heuristicPushed, returned, calls, color, hasShownWelcome>>

\* activate(): showWelcomeMessage, updateColorConfiguration, the listener
\* and the provider are registered
Activate ==
    /\ ~activated
    /\ activated' = TRUE
    /\ hasShownWelcome' = TRUE
    /\ welcomeMessages' = IF hasShownWelcome
                          THEN welcomeMessages
                          ELSE welcomeMessages + 1
    /\ globalValue' = updateColorConfiguration(color, globalValue)
    /\ events' = UpdateEvents(globalValue, globalValue')
    /\ UNCHANGED <<cancellationRequested, kind, document, queue, pc,
                   current,
                   promiseReturningFunctions, promiseReturningMethods,
                   instanceToClass, objectToPromiseMethods, heuristicTokens,
                   typeChecker, tscSourceFile, tokensBuilder,
                   heuristicPushed, returned, calls, color>>

\* deactivate(): the subscriptions of the context are disposed
Deactivate ==
    /\ activated
    /\ activated' = FALSE
    /\ events' = <<>>
    /\ UNCHANGED <<cancellationRequested, kind, document, queue, pc,
                   current,
                   promiseReturningFunctions, promiseReturningMethods,
                   instanceToClass, objectToPromiseMethods, heuristicTokens,
                   typeChecker, tscSourceFile, tokensBuilder,
                   heuristicPushed, returned, calls, color, globalValue,
                   hasShownWelcome, welcomeMessages>>

\* the user changes promiseColorizer.color in the settings
ChangeColor ==
    /\ Len(events) < MaxEvents
    /\ color' \in (Colors \cup {""}) \ {color}
    /\ events' = IF activated
                 THEN Append(events, "promiseColorizer.color")
                 ELSE events
    /\ UNCHANGED <<cancellationRequested, kind, document, queue, pc,
                   current,
                   promiseReturningFunctions, promiseReturningMethods,
                   instanceToClass, objectToPromiseMethods, heuristicTokens,
                   typeChecker, tscSourceFile, tokensBuilder,
                   heuristicPushed, returned, calls, activated, globalValue,
                   hasShownWelcome, welcomeMessages>>

\* the user changes the keys and rules of the global
\* editor.semanticTokenColorCustomizations that the extension does not own
ChangeCustomizations ==
    /\ Len(events) < MaxEvents
    /\ globalValue' \in GlobalValues \ {globalValue}
    /\ PromiseFunctionRule(globalValue') = PromiseFunctionRule(globalValue)
    /\ events' = IF activated
                 THEN Append(events, "editor.semanticTokenColorCustomizations")
                 ELSE events
    /\ UNCHANGED <<cancellationRequested, kind, document, queue, pc,
                   current,
                   promiseReturningFunctions, promiseReturningMethods,
                   instanceToClass, objectToPromiseMethods, heuristicTokens,
                   typeChecker, tscSourceFile, tokensBuilder,
                   heuristicPushed, returned, calls, activated, color,
                   hasShownWelcome, welcomeMessages>>

\* a variant of the listener whose affectsConfiguration test names a
\* setting that does not exist: it handles every event without updating
OnDidChangeConfiguration_WrongSetting ==
    /\ activated
    /\ events # <<>>
    /\ globalValue' = globalValue
    /\ events' = Tail(events)
    /\ UNCHANGED <<cancellationRequested, kind, document, queue, pc,
                   current,
                   promiseReturningFunctions, promiseReturningMethods,
                   instanceToClass, objectToPromiseMethods, heuristicTokens,
                   typeChecker, tscSourceFile, tokensBuilder,
                   heuristicPushed, returned, calls, activated, color,
                   hasShownWelcome, welcomeMessages>>

\* the onDidChangeConfiguration listener handles the oldest event
OnDidChangeConfiguration ==
    /\ activated
    /\ events # <<>>
    /\ IF Head(events) = "promiseColorizer.color"
       THEN /\ globalValue' = updateColorConfiguration(color, globalValue)
            /\ events' = Tail(events) \o UpdateEvents(globalValue, globalValue')
       ELSE /\ globalValue' = globalValue
            /\ events' = Tail(events)
    /\ UNCHANGED <<cancellationRequested, kind, document, queue, pc,
                   current,
                   promiseReturningFunctions, promiseReturningMethods,
                   instanceToClass, objectToPromiseMethods, heuristicTokens,
                   typeChecker, tscSourceFile, tokensBuilder,
                   heuristicPushed, returned, calls, activated, color,
                   hasShownWelcome, welcomeMessages>>

\* the extension state while the provider serves requests: activated
\* once with the default color, nothing else customized
ExtensionActive ==
    /\ activated = TRUE
    /\ color = DefaultColor
    /\ globalValue = updateColorConfiguration(DefaultColor, EmptyMap)
    /\ events = <<>>
    /\ hasShownWelcome = TRUE
    /\ welcomeMessages = 1

----------------------------------------------------------------------------
(* Specification: one document, analysed up to MaxCalls times *)

Init ==
    /\ document \in Docs
    /\ InitProvider
    /\ ExtensionActive

Next ==
    \/ Request
    \/ Heuristic_Clear
    \/ Heuristic_CollectPromiseFunctions
    \/ Heuristic_CollectInstanceVariables
    \/ Heuristic_CollectObjectLiterals
    \/ Heuristic_Visit
    \/ Heuristic_Return
    \/ Hybrid_Clear
    \/ Hybrid_CollectPromiseFunctions
    \/ Hybrid_CollectInstanceVariables
    \/ Hybrid_CollectObjectLiterals
    \/ Hybrid_VisitHeuristic
    \/ Hybrid_CreateTypeScriptProgram
    \/ Hybrid_VisitTypeScript
    \/ Hybrid_Return
    \/ Tsc_CreateTypeScriptProgram
    \/ Tsc_Visit
    \/ Tsc_Return
    \/ Legacy_Clear
    \/ Legacy_CreateTypeScriptProgram
    \/ Legacy_CollectPromiseFunctions
    \/ Legacy_CollectInstanceVariables
    \/ Legacy_CollectObjectLiterals
    \/ Legacy_Visit
    \/ Legacy_Return

Spec == Init /\ [][Next]_vars

----------------------------------------------------------------------------
(* Specification: the document is edited between the requests *)

\* the texts the editing specification moves between
EditUnits ==
    { AsyncFunctionAndCall, PlainFunctionAndCall, ClassInstanceCall,
      CallerBeforeCallee, CheckerOnlyFunction }

EditDocs == [unit : EditUnits, program : Programs]

\* the user changes the text (onDidChangeTextDocument)
Edit ==
    /\ calls < MaxCalls
    /\ document' \in EditDocs \ {document}
    /\ UNCHANGED <<kind, queue, pc, current, promiseReturningFunctions,
                   promiseReturningMethods, instanceToClass,
                   objectToPromiseMethods, heuristicTokens, typeChecker,
                   tscSourceFile, tokensBuilder, heuristicPushed, returned,
                   calls>>
    /\ UNCHANGED extensionVars
    /\ UNCHANGED cancellationRequested

InitEdit ==
    /\ document \in EditDocs
    /\ InitProvider
    /\ ExtensionActive

NextEdit ==
    \/ Next
    \/ Edit

SpecEdit == InitEdit /\ [][NextEdit]_vars

----------------------------------------------------------------------------
(* Specification: the caller may cancel the running analysis *)

\* the caller cancels the token it passed to the running call: the
\* `token: vscode.CancellationToken` parameter of
\* provideDocumentSemanticTokens reports isCancellationRequested from
\* now on
Cancel ==
    /\ pc # "idle"
    /\ (Len(returned) + 1) \notin cancellationRequested
    /\ cancellationRequested' = cancellationRequested \cup {Len(returned) + 1}
    /\ UNCHANGED <<kind, document, queue, pc, current,
                   promiseReturningFunctions, promiseReturningMethods,
                   instanceToClass, objectToPromiseMethods, heuristicTokens,
                   typeChecker, tscSourceFile, tokensBuilder,
                   heuristicPushed, returned, calls>>
    /\ UNCHANGED extensionVars

NextCancel ==
    \/ Next
    \/ Cancel

SpecCancel == InitEdit /\ [][NextCancel]_vars

----------------------------------------------------------------------------
(* Specification: the extension's settings, from a fresh installation *)

InitExtension ==
    /\ document = [unit |-> AsyncFunctionAndCall, program |-> "ok"]
    /\ InitProvider
    /\ kind = "legacy"
    /\ activated = FALSE
    /\ color \in Colors \cup {""}
    /\ globalValue \in GlobalValues
    /\ PromiseFunctionRule(globalValue) \notin Colors
    /\ events = <<>>
    /\ hasShownWelcome = FALSE
    /\ welcomeMessages = 0

NextExtension ==
    \/ Activate
    \/ Deactivate
    \/ ChangeColor
    \/ ChangeCustomizations
    \/ OnDidChangeConfiguration

SpecExtension == InitExtension /\ [][NextExtension]_vars

\* VS Code delivers every configuration-change event it has raised to the
\* registered listener
SpecExtensionFair ==
    /\ InitExtension
    /\ [][NextExtension]_vars
    /\ WF_vars(OnDidChangeConfiguration)

----------------------------------------------------------------------------
(* What one call on a fresh instance returns *)

\* the span set of a built token list
Spans(tokens) == { tokens[i] : i \in 1..Len(tokens) }

Heuristic_provideDocumentSemanticTokens(doc) ==
    Heuristic_visit(doc.unit, Heuristic_collect(doc.unit), 1, <<>>)

Hybrid_collect(u) ==
    Hybrid_collectObjectLiterals(u,
        Hybrid_collectInstanceVariables(u,
            Hybrid_collectPromiseFunctions(u, ClearedRegs, 1), 1), 1)

Hybrid_provideDocumentSemanticTokens(doc) ==
    LET st == Hybrid_visitHeuristic(doc.unit, Hybrid_collect(doc.unit), 1,
                                    [builder |-> <<>>, keys |-> {}])
        res == Hybrid_createTypeScriptProgram(doc)
    IN  IF res.sourceFile # Undefined /\ res.typeChecker # Undefined
        THEN Hybrid_visitTypeScript(res.sourceFile, st.keys, 1, st.builder)
        ELSE st.builder

Tsc_provideDocumentSemanticTokens(doc) ==
    LET res == Tsc_createTypeScriptProgram(doc)
    IN  IF res.sourceFile = Undefined \/ res.typeChecker = Undefined
        THEN <<>>
        ELSE Tsc_visit(res.sourceFile, 1, <<>>)

Legacy_collect(u, tc) ==
    Legacy_collectObjectLiterals(u,
        Legacy_collectInstanceVariables(u,
            Legacy_collectPromiseFunctions(u, ClearedRegs, tc, 1), 1), tc, 1)

Legacy_provideDocumentSemanticTokens(doc) ==
    LET tc == Legacy_createTypeScriptProgram(doc)
    IN  Legacy_visit(doc.unit, tc, 1,
                     [builder |-> <<>>,
                      r |-> Legacy_collect(doc.unit, tc)]).builder

provideDocumentSemanticTokens(k, doc) ==
    CASE k = "heuristic" -> Heuristic_provideDocumentSemanticTokens(doc)
      [] k = "hybrid" -> Hybrid_provideDocumentSemanticTokens(doc)
      [] k = "tsc" -> Tsc_provideDocumentSemanticTokens(doc)
      [] k = "legacy" -> Legacy_provideDocumentSemanticTokens(doc)

----------------------------------------------------------------------------
(* Claims *)

\* C1: the span set a hybrid call is about to return contains every span
\* the heuristic provider returns for the same document, and is exactly
\* that set when createTypeScriptProgram left no source file or no type
\* checker.
C1_HybridSupersetOfHeuristic ==
    (kind = "hybrid" /\ pc = "return") =>
        /\ Spans(Heuristic_provideDocumentSemanticTokens(current))
               \subseteq Spans(tokensBuilder)
        /\ (tscSourceFile = Undefined \/ typeChecker = Undefined) =>
               Spans(tokensBuilder)
                   = Spans(Heuristic_provideDocumentSemanticTokens(current))

\* a hybrid call whose semantic walk added spans to a non-empty heuristic
\* result
C1_Witness ==
    /\ kind = "hybrid"
    /\ pc = "return"
    /\ tscSourceFile # Undefined
    /\ heuristicPushed > 0
    /\ Len(tokensBuilder) > heuristicPushed
    /\ Spans(Heuristic_provideDocumentSemanticTokens(current))
           # Spans(tokensBuilder)

\* C2: in a hybrid call no span is pushed twice, over the heuristic walk
\* and the semantic walk together, and the pushes of the heuristic walk
\* are still the first entries of the list the call returns.
C2_PushedOnceAndKept ==
    (kind = "hybrid" /\ pc \in {"createTypeScriptProgram", "visitTypeScript",
                                "return"}) =>
        /\ \A i, j \in 1..Len(tokensBuilder) :
               tokensBuilder[i] = tokensBuilder[j] => i = j
        /\ heuristicPushed <= Len(tokensBuilder)
        /\ SubSeq(tokensBuilder, 1, heuristicPushed)
               = Hybrid_visitHeuristic(current.unit, Regs, 1,
                     [builder |-> <<>>, keys |-> {}]).builder
        /\ heuristicTokens
               = { <<tokensBuilder[i].start.character, "-",
                     tokensBuilder[i].end.character>> :
                       i \in 1..heuristicPushed }

\* a hybrid call where the semantic walk met an identifier the heuristic
\* walk had claimed, and also pushed a new one
C2_Witness ==
    /\ kind = "hybrid"
    /\ pc = "return"
    /\ tscSourceFile # Undefined
    /\ Len(tokensBuilder) > heuristicPushed
    /\ \E n \in 1..Len(current.unit) :
           /\ IsFunctionLike(current.unit[n])
           /\ DefinitionIdentifier(current.unit, n) # 0
           /\ getNodeKey(DefinitionIdentifier(current.unit, n))
                  \in heuristicTokens
           /\ Hybrid_isFunctionReturningPromiseTypeScript(current.unit, n)

\* C3: in heuristic and hybrid mode every call whose callee is a bare
\* identifier held by promiseReturningFunctions after collection is in
\* the result, before or after the definition; and for
\* `async function f(){return 1} f()` the result is the declaration's f
\* and the call's f.
C3_RegisteredNameCallsReported ==
    (kind \in {"heuristic", "hybrid"} /\ pc = "return") =>
        /\ \A n \in 1..Len(current.unit) :
               ( /\ current.unit[n].kind = "CallExpression"
                 /\ current.unit[n].callee = "Identifier"
                 /\ current.unit[n].text \in promiseReturningFunctions )
               => Range(n) \in Spans(tokensBuilder)
        /\ current.unit = AsyncFunctionAndCall =>
               Spans(tokensBuilder) = {Range(1), Range(4)}

\* a reported call to a registered function that is declared after the call
C3_Witness ==
    /\ kind \in {"heuristic", "hybrid"}
    /\ pc = "return"
    /\ \E n, d \in 1..Len(current.unit) :
           /\ n < d
           /\ current.unit[n].kind = "CallExpression"
           /\ current.unit[n].callee = "Identifier"
           /\ current.unit[d].kind = "FunctionDeclaration"
           /\ current.unit[d].text = current.unit[n].text
           /\ current.unit[n].text \in promiseReturningFunctions
           /\ Range(n) \in Spans(tokensBuilder)

\* Rule 3 as the specification states it: the walk for a qualifying
\* return stops at the boundary of every nested function-like node.
RECURSIVE OwnBodyReturns(_, _, _)
OwnBodyReturns(u, r, n) ==
    IF /\ u[n].kind = "ReturnStatement"
       /\ FirstChild(u, n) # 0
       /\ Heuristic_isExpressionReturningPromise(u, r, FirstChild(u, n))
    THEN TRUE
    ELSE IF IsFunctionLike(u[n])
    THEN FALSE
    ELSE \E c \in Children(u, n) : OwnBodyReturns(u, r, c)

OwnBodyReturnPattern(u, r, n) ==
    IF /\ u[n].kind = "ArrowFunction"
       /\ u[n].body = "Expression"
    THEN Heuristic_isExpressionReturningPromise(u, r, FirstChild(u, n))
    ELSE IF u[n].body = "Block"
    THEN \E c \in Children(u, n) : OwnBodyReturns(u, r, c)
    ELSE FALSE

\* C4: rule 3 of the heuristic classifiers decides on the returns of the
\* function's own body only: with the registries of a finished
\* collection, hasPromiseReturnPattern of every function-like node is what
\* the walk that stops at every nested function-like node (declaration,
\* expression, arrow, method) finds.
C4_OwnBodyReturnsOnly ==
    ( /\ kind \in {"heuristic", "hybrid"}
      /\ pc \in {"visit", "visitHeuristic", "return"} ) =>
        \A n \in 1..Len(current.unit) :
            IsFunctionLike(current.unit[n]) =>
                /\ Heuristic_hasPromiseReturnPattern(current.unit, Regs, n)
                       = OwnBodyReturnPattern(current.unit, Regs, n)
                /\ Hybrid_hasPromiseReturnPattern(current.unit, Regs, n)
                       = OwnBodyReturnPattern(current.unit, Regs, n)

\* C5: a function-like node with the async modifier is positive for the
\* heuristic rule (both copies, under whatever the registries hold) and
\* for the type-checker rule (both copies), and a heuristic or a completed
\* type-checker call reports its identifier.
C5_AsyncIsPositive ==
    current # NoDocument =>
        \A n \in 1..Len(current.unit) :
            (IsFunctionLike(current.unit[n]) /\ current.unit[n].async) =>
                /\ Heuristic_isFunctionReturningPromise(current.unit, Regs, n)
                /\ Hybrid_isFunctionReturningPromiseHeuristic(
                       current.unit, Regs, n)
                /\ Tsc_isFunctionReturningPromise(current.unit, n)
                /\ Hybrid_isFunctionReturningPromiseTypeScript(
                       current.unit, n)
                /\ ( /\ pc = "return"
                     /\ DefinitionIdentifier(current.unit, n) # 0
                     /\ \/ kind = "heuristic"
                        \/ kind = "tsc" /\ tscSourceFile # Undefined )
                   => Range(DefinitionIdentifier(current.unit, n))
                          \in Spans(tokensBuilder)

\* the type-checker provider reports an async function with a declared
\* return type `string` on whose signature the checker throws
C5_Witness ==
    /\ kind = "tsc"
    /\ pc = "return"
    /\ \E n \in 1..Len(current.unit) :
           /\ IsFunctionLike(current.unit[n])
           /\ current.unit[n].async
           /\ current.unit[n].type = StringText
           /\ current.unit[n].sem = "throws"
           /\ DefinitionIdentifier(current.unit, n) # 0
           /\ Range(DefinitionIdentifier(current.unit, n))
                  \in Spans(tokensBuilder)

IsRegistered(u, r, n) ==
    \/ /\ u[n].kind = "FunctionDeclaration"
       /\ u[n].nameKind # "None"
       /\ u[n].text \in r.fns
    \/ /\ u[n].kind \in {"ArrowFunction", "FunctionExpression"}
       /\ ParentIsVariableDeclaration(u, n)
       /\ u[u[n].parent].nameKind = "Identifier"
       /\ u[u[n].parent].text \in r.fns
    \/ /\ u[n].kind = "MethodDeclaration"
       /\ u[n].nameKind = "Identifier"
       /\ Heuristic_getContainingClassName(u, n) # ""
       /\ MapGetHas(r.methods, Heuristic_getContainingClassName(u, n),
                    u[n].text)

\* the calls that name the function n
CallsOf(u, n) ==
    { c \in 1..Len(u) :
        /\ u[c].kind = "CallExpression"
        /\ \/ /\ u[n].kind = "FunctionDeclaration"
              /\ u[n].nameKind # "None"
              /\ u[c].callee = "Identifier"
              /\ u[c].text = u[n].text
           \/ /\ u[n].kind \in {"ArrowFunction", "FunctionExpression"}
              /\ ParentIsVariableDeclaration(u, n)
              /\ u[u[n].parent].nameKind = "Identifier"
              /\ u[c].callee = "Identifier"
              /\ u[c].text = u[u[n].parent].text }

\* C7: in heuristic mode a function without the async modifier, without a
\* promise return-type annotation and without a qualifying return in its
\* own body is negative, has no registry entry, and neither its identifier
\* nor a call to it is in the result; `function g(){return 1} g()` gives
\* the empty result.
C7_PlainFunctionIsNegative ==
    (kind = "heuristic" /\ pc = "return") =>
        /\ \A n \in 1..Len(current.unit) :
               ( /\ IsFunctionLike(current.unit[n])
                 /\ ~current.unit[n].async
                 /\ current.unit[n].type # PromiseText
                 /\ ~startsWith(current.unit[n].type, PromiseOpenText)
                 /\ ~OwnBodyReturnPattern(current.unit, Regs, n) ) =>
                   /\ ~Heuristic_isFunctionReturningPromise(
                           current.unit, Regs, n)
                   /\ ~IsRegistered(current.unit, Regs, n)
                   /\ DefinitionIdentifier(current.unit, n) # 0 =>
                          Range(DefinitionIdentifier(current.unit, n))
                              \notin Spans(tokensBuilder)
                   /\ \A c \in CallsOf(current.unit, n) :
                          Range(c) \notin Spans(tokensBuilder)
        /\ current.unit = PlainFunctionAndCall => tokensBuilder = <<>>

\* the pairs <<d, c>> of the unit: d declares `v = new X()` and c is a
\* call `v.m()`
InstanceCalls(u) ==
    { p \in (1..Len(u)) \X (1..Len(u)) :
        /\ u[p[1]].kind = "VariableDeclaration"
        /\ u[p[1]].nameKind = "Identifier"
        /\ FirstChild(u, p[1]) # 0
        /\ u[FirstChild(u, p[1])].kind = "NewExpression"
        /\ u[FirstChild(u, p[1])].nameKind = "Identifier"
        /\ u[p[2]].kind = "CallExpression"
        /\ u[p[2]].callee = "PropertyAccess"
        /\ u[p[2]].objKind = "Identifier"
        /\ u[p[2]].obj = u[p[1]].text }

\* v is declared once in the unit, and is neither `Promise` nor a class
SoleBinding(u, v) ==
    /\ Cardinality({ d \in 1..Len(u) :
                       /\ u[d].kind = "VariableDeclaration"
                       /\ u[d].text = v }) = 1
    /\ v # "Promise"
    /\ \A k \in 1..Len(u) :
           u[k].kind = "ClassDeclaration" => u[k].text # v

\* C8 as stated: in heuristic mode, for every declaration `v = new X()`
\* and every call `v.m()` of the unit, the call is in the result if and
\* only if promiseReturningMethods holds m under X; the scenario reports
\* the method's m and the call's m.
C8_InstanceCallIffRegistered ==
    (kind = "heuristic" /\ pc = "return") =>
        /\ \A p \in InstanceCalls(current.unit) :
               Range(p[2]) \in Spans(tokensBuilder)
                   <=> MapGetHas(promiseReturningMethods,
                                 current.unit[FirstChild(current.unit,
                                                         p[1])].text,
                                 current.unit[p[2]].text)
        /\ current.unit = ClassInstanceCall =>
               Spans(tokensBuilder) = {Range(2), Range(5)}

\* C8, amended: the equivalence holds for the variables that have one
\* declaration in the unit and are neither `Promise` nor a class name.
C8_SoleInstanceCallIffRegistered ==
    (kind = "heuristic" /\ pc = "return") =>
        /\ \A p \in InstanceCalls(current.unit) :
               SoleBinding(current.unit, current.unit[p[1]].text) =>
                   ( Range(p[2]) \in Spans(tokensBuilder)
                       <=> MapGetHas(promiseReturningMethods,
                                     current.unit[FirstChild(current.unit,
                                                             p[1])].text,
                                     current.unit[p[2]].text) )
        /\ current.unit = ClassInstanceCall =>
               Spans(tokensBuilder) = {Range(2), Range(5)}

\* a reported call on a variable with one declaration, made before the
\* declaration and before the class
C8_Witness ==
    /\ kind = "heuristic"
    /\ pc = "return"
    /\ \E p \in InstanceCalls(current.unit) :
           /\ SoleBinding(current.unit, current.unit[p[1]].text)
           /\ p[2] < p[1]
           /\ Range(p[2]) \in Spans(tokensBuilder)

\* C9: two calls on one provider instance for the same document return
\* the same span set, whichever of the four providers the instance is.
C9_SameInputSameSpans ==
    \A i, j \in 1..Len(returned) :
        returned[i].document = returned[j].document =>
            Spans(returned[i].tokens) = Spans(returned[j].tokens)

\* the legacy provider returned twice for a document whose analysis
\* cached a method in objectToPromiseMethods
C9_Witness ==
    /\ kind = "legacy"
    /\ Len(returned) = 2
    /\ returned[1].document = returned[2].document
    /\ returned[2].tokens # <<>>
    /\ objectToPromiseMethods # EmptyMap
    /\ Legacy_collect(returned[2].document.unit, typeChecker).objects
           # objectToPromiseMethods

\* C10: a call returns the span set that a call on a fresh instance
\* returns for its document, also when the next analysis was requested
\* before it returned and for another text.
C10_CallsDoNotInterfere ==
    /\ \A i \in 1..Len(returned) :
           Spans(returned[i].tokens)
               = Spans(provideDocumentSemanticTokens(kind,
                                                     returned[i].document))
    /\ pc = "return" =>
           Spans(tokensBuilder)
               = Spans(provideDocumentSemanticTokens(kind, current))

\* two analyses of different texts returned, the second requested while
\* the first was running, both with spans
C10_Witness ==
    /\ Len(returned) = 2
    /\ returned[1].pending > 0
    /\ returned[1].document.unit # returned[2].document.unit
    /\ returned[1].tokens # <<>>
    /\ returned[2].tokens # <<>>
    /\ Spans(returned[1].tokens) # Spans(returned[2].tokens)

\* C11: when the collection of a call starts (and while the legacy
\* provider builds its program just before it), the four registries are
\* empty, and in the hybrid provider the set of claimed node keys is
\* empty too, whatever documents the instance analysed before.
C11_RegistriesEmptyAtCollectionStart ==
    (\/ pc = "collectPromiseFunctions"
     \/ kind = "legacy" /\ pc = "createTypeScriptProgram") =>
        /\ Regs = ClearedRegs
        /\ kind = "hybrid" => heuristicTokens = {}

\* the second call of a legacy instance starts its collection on another
\* text, after a first call that filled the registries and returned
\* spans
C11_Witness ==
    /\ kind = "legacy"
    /\ pc = "collectPromiseFunctions"
    /\ Len(returned) = 1
    /\ returned[1].tokens # <<>>
    /\ returned[1].document.unit # current.unit
    /\ Legacy_collect(returned[1].document.unit,
                      Legacy_createTypeScriptProgram(returned[1].document))
           # ClearedRegs

\* C12: a semantic-only call whose createTypeScriptProgram threw, or got
\* no source file from the program, is at its return statement with an
\* empty builder (the exception is caught inside
\* createTypeScriptProgram), and the result it hands back is empty.
C12_TscFailureReturnsEmpty ==
    kind = "tsc" =>
        /\ (current # NoDocument /\ current.program # "ok") =>
               (pc = "return" /\ tokensBuilder = <<>>)
        /\ \A i \in 1..Len(returned) :
               returned[i].document.program # "ok" =>
                   returned[i].tokens = <<>>

\* a semantic-only call returned empty after ts.createProgram threw, for
\* a text that has spans when the program is built
C12_Witness ==
    /\ kind = "tsc"
    /\ Len(returned) >= 1
    /\ returned[1].document.program = "throws"
    /\ returned[1].tokens = <<>>
    /\ Tsc_provideDocumentSemanticTokens(
           [unit |-> returned[1].document.unit, program |-> "ok"]) # <<>>

\* the registries a call on a fresh instance leaves behind
RegistriesAfter(k, doc) ==
    CASE k = "heuristic" -> Heuristic_collect(doc.unit)
      [] k = "hybrid" -> Hybrid_collect(doc.unit)
      [] k = "tsc" -> ClearedRegs
      [] k = "legacy" ->
           LET tc == Legacy_createTypeScriptProgram(doc)
           IN  Legacy_visit(doc.unit, tc, 1,
                            [builder |-> <<>>,
                             r |-> Legacy_collect(doc.unit, tc)]).r

\* the failure-free inputs a document may be the failing version of: the
\* program is built, and every node whose type resolution throws
\* resolves to some type or to no signature
FailureFreeRuns(doc) ==
    LET u == doc.unit
        failing == { i \in 1..Len(u) : u[i].sem = "throws" }
    IN  { [unit |-> [i \in 1..Len(u) |->
                        IF i \in failing
                        THEN [u[i] EXCEPT !.sem = resolved[i]]
                        ELSE u[i]],
           program |-> "ok"] :
          resolved \in [failing -> SemTypes \cup {"noSignature"}] }

\* C13: a call at its return statement holds the registries of the
\* failure-free run of its input, and a subset of that run's spans,
\* whichever failures (program construction, type resolution of a node)
\* the input carries and whichever provider runs.
C13_FailuresOnlyRemoveSpans ==
    pc = "return" =>
        \A d \in FailureFreeRuns(current) :
            /\ Regs = RegistriesAfter(kind, d)
            /\ Spans(tokensBuilder)
                   \subseteq Spans(provideDocumentSemanticTokens(kind, d))

\* C14: a step that runs updateColorConfiguration (activation, or the
\* listener handling an event) keeps every top-level key of the global
\* customizations other than rules, and every entry of rules other than
\* promiseFunction, with its value, and adds no other key or entry.
C14_UpdateChangesOnlyPromiseFunction ==
    [][(Activate \/ OnDidChangeConfiguration) =>
          \/ globalValue' = globalValue
          \/ /\ DOMAIN globalValue' = DOMAIN globalValue \cup {"rules"}
             /\ \A k \in DOMAIN globalValue \ {"rules"} :
                    globalValue'[k] = globalValue[k]
             /\ LET old == IF MapHas(globalValue, "rules")
                           THEN globalValue["rules"]
                           ELSE EmptyMap
                    new == globalValue'["rules"]
                IN  /\ DOMAIN new = DOMAIN old \cup {"promiseFunction"}
                    /\ \A k \in DOMAIN old \ {"promiseFunction"} :
                           new[k] = old[k]]_vars

\* the extension replaced a promiseFunction rule the user had, in a
\* global value that has another rule, the enabled key and a theme block
C14_Witness ==
    /\ activated
    /\ PromiseFunctionRule(globalValue) = "#FF0000"
    /\ DOMAIN globalValue = {"enabled", "rules", "[Monokai]"}
    /\ DOMAIN globalValue["rules"] = {"promiseFunction", "function"}

\* C15: at the end of the heuristic collection, every function that the
\* collection can register (a named declaration, an arrow or function
\* expression bound to a variable, a method of a named class) and that
\* returns a call which the collected registries make positive is itself
\* registered, wherever the callee's definition or binding stands.
C15_RegisteredWhateverTheOrder ==
    (kind = "heuristic" /\ pc \in {"visit", "return"}) =>
        \A n \in 1..Len(current.unit) :
            LET u == current.unit
                registrable ==
                    \/ /\ u[n].kind = "FunctionDeclaration"
                       /\ u[n].nameKind # "None"
                    \/ /\ u[n].kind \in {"ArrowFunction", "FunctionExpression"}
                       /\ ParentIsVariableDeclaration(u, n)
                       /\ u[u[n].parent].nameKind = "Identifier"
                    \/ /\ u[n].kind = "MethodDeclaration"
                       /\ u[n].nameKind = "Identifier"
                       /\ Heuristic_getContainingClassName(u, n) # ""
            IN  ( /\ IsFunctionLike(u[n])
                  /\ registrable
                  /\ Heuristic_hasPromiseReturnPattern(u, Regs, n) ) =>
                    IsRegistered(u, Regs, n)

\* C16: while a heuristic call has not finished its three collection
\* walks (collectInstanceVariables or collectObjectLiterals is still to
\* run), isKnownPromiseReturningCall has been handed no call.
C16_CallRuleAfterCollection ==
    (kind = "heuristic"
         /\ pc \in {"collectInstanceVariables", "collectObjectLiterals"}) =>
        Heuristic_callsJudgedByCollect(current.unit, ClearedRegs, 1) = {}

\* C17: a step taken after the collection phase of a call (the
\* classification walks, the hybrid program construction, the return)
\* leaves the four registries as they are, in every provider.
C17_RegistriesReadOnlyAfterCollection ==
    [][(\/ pc \in {"visit", "visitHeuristic", "visitTypeScript", "return"}
        \/ kind = "hybrid" /\ pc = "createTypeScriptProgram") =>
          Regs' = Regs]_vars

\* the five cases in which the specification's call-level rule is
\* positive for the call c
CallRule(u, r, c) ==
    LET bare == u[c].callee = "Identifier"
        member == u[c].callee = "PropertyAccess" /\ u[c].objKind = "Identifier"
        classOf == IF MapHas(r.instances, u[c].obj)
                   THEN {u[c].obj, r.instances[u[c].obj]}
                   ELSE {u[c].obj}
    IN  \/ bare /\ u[c].text = "fetch"
        \/ bare /\ u[c].text \in r.fns
        \/ member /\ u[c].obj = "Promise"
        \/ member /\ \E k \in classOf : MapGetHas(r.methods, k, u[c].text)
        \/ member /\ MapGetHas(r.objects, u[c].obj, u[c].text)

\* C18: isKnownPromiseReturningCall is positive for a call exactly in
\* the five cases of the call-level rule (fetch, a registered function,
\* a member of Promise, a registered method of the receiver's class or of
\* the class the receiver is an instance of, a registered member of the
\* receiver's object literal); the heuristic result, and the hybrid
\* provider's claimed keys, hold the call's span exactly then, so
\* `const s = "then"; console.log(s)` gives no span.
C18_CallRuleIffFiveCases ==
    /\ (kind = "heuristic" /\ pc = "return") =>
           \A c \in 1..Len(current.unit) :
               current.unit[c].kind = "CallExpression" =>
                   /\ Heuristic_isKnownPromiseReturningCall(
                          current.unit, Regs, c)
                          <=> CallRule(current.unit, Regs, c)
                   /\ Range(c) \in Spans(tokensBuilder)
                          <=> CallRule(current.unit, Regs, c)
    /\ (kind = "hybrid" /\ pc = "createTypeScriptProgram") =>
           \A c \in 1..Len(current.unit) :
               current.unit[c].kind = "CallExpression" =>
                   /\ Hybrid_isKnownPromiseReturningCall(
                          current.unit, Regs, c)
                          <=> CallRule(current.unit, Regs, c)
                   /\ getNodeKey(c) \in heuristicTokens
                          <=> CallRule(current.unit, Regs, c)

\* the heuristic provider is about to return no span for
\* `const s = "then"; console.log(s)`
C18_Witness ==
    /\ kind = "heuristic"
    /\ pc = "return"
    /\ tokensBuilder = <<>>
    /\ Len(current.unit) = 4
    /\ current.unit[1].kind = "VariableDeclaration"
    /\ current.unit[1].text = "s"
    /\ current.unit[3].kind = "CallExpression"
    /\ current.unit[3].obj = "console"
    /\ current.unit[3].text = "log"

\* C19: in heuristic mode a function without the async modifier and
\* without a promise return-type annotation, whose body constructs a
\* promise (`new Promise(...)` or `Promise.x(...)`) but has no qualifying
\* return of its own, is negative and its identifier is not in the
\* result.
C19_UnreturnedPromiseIsNegative ==
    (kind = "heuristic" /\ pc = "return") =>
        \A n \in 1..Len(current.unit) :
            LET u == current.unit
                inside(d) == d > n /\ \A j \in (n + 1)..d : u[j].parent >= n
                constructsPromise(d) ==
                    \/ /\ u[d].kind = "NewExpression"
                       /\ u[d].nameKind = "Identifier"
                       /\ u[d].text = "Promise"
                    \/ /\ u[d].kind = "CallExpression"
                       /\ u[d].callee = "PropertyAccess"
                       /\ u[d].objKind = "Identifier"
                       /\ u[d].obj = "Promise"
            IN  ( /\ IsFunctionLike(u[n])
                  /\ ~u[n].async
                  /\ u[n].type # PromiseText
                  /\ ~startsWith(u[n].type, PromiseOpenText)
                  /\ ~OwnBodyReturnPattern(u, Regs, n)
                  /\ \E d \in 1..Len(u) : inside(d) /\ constructsPromise(d) ) =>
                    /\ ~Heuristic_isFunctionReturningPromise(u, Regs, n)
                    /\ DefinitionIdentifier(u, n) # 0 =>
                           Range(DefinitionIdentifier(u, n))
                               \notin Spans(tokensBuilder)

\* the specification's promise-type test: the type, or a member of a
\* union type, has the symbol Promise or a `then` member with a call
\* signature
RECURSIVE PromiseTypeTest(_)
PromiseTypeTest(t) ==
    LET ty == SemType(t)
    IN  IF ty.union # <<>>
        THEN \E i \in 1..Len(ty.union) : PromiseTypeTest(ty.union[i])
        ELSE \/ ty.symbol = "Promise"
             \/ ty.then # "absent" /\ ty.thenCallable

\* C20: in the semantic-only and the hybrid provider, a non-async
\* function and a call whose signature the checker resolves are
\* semantically positive exactly if the return type of that signature
\* passes the promise-type test.
C20_SemanticTestIffPromiseOrThenable ==
    (\/ kind = "tsc" /\ pc = "visit"
     \/ kind = "hybrid" /\ pc = "visitTypeScript") =>
        \A n \in 1..Len(tscSourceFile) :
            LET tu == tscSourceFile
            IN  tu[n].sem \in SemTypes =>
                 /\ (IsFunctionLike(tu[n]) /\ ~tu[n].async) =>
                        /\ Tsc_isFunctionReturningPromise(tu, n)
                               <=> PromiseTypeTest(tu[n].sem)
                        /\ Hybrid_isFunctionReturningPromiseTypeScript(tu, n)
                               <=> PromiseTypeTest(tu[n].sem)
                 /\ tu[n].kind = "CallExpression" =>
                        /\ Tsc_isPromiseReturningCall(tu, n)
                               <=> PromiseTypeTest(tu[n].sem)
                        /\ Hybrid_isPromiseReturningCallTypeScript(tu, n)
                               <=> PromiseTypeTest(tu[n].sem)

\* C21: in the semantic-only provider and the hybrid provider with a
\* built program, a node whose type resolution throws is semantically
\* negative (its identifier is in the result only if the function is
\* async or the heuristic walk claimed it), and the identifier of every
\* other function and call is in the result exactly if it is in the
\* result of the run in which no resolution throws.
C21_FailureIsLocalToTheNode ==
    (kind \in {"tsc", "hybrid"} /\ pc = "return" /\ current.program = "ok") =>
        \A n \in 1..Len(current.unit) :
            LET u == current.unit
                id == IF u[n].kind = "CallExpression"
                      THEN CallIdentifier(u, n)
                      ELSE IF IsFunctionLike(u[n])
                      THEN DefinitionIdentifier(u, n)
                      ELSE 0
            IN  id # 0 =>
                  IF u[n].sem = "throws"
                  THEN Range(id) \in Spans(tokensBuilder) =>
                           \/ u[n].async
                           \/ kind = "hybrid" /\ getNodeKey(id) \in heuristicTokens
                  ELSE \A d \in FailureFreeRuns(current) :
                           Range(id) \in Spans(tokensBuilder)
                               <=> Range(id) \in Spans(
                                       provideDocumentSemanticTokens(kind, d))

\* the semantic-only walk met a call whose resolution throws and
\* reported a node that comes after it
C21_Witness ==
    /\ kind = "tsc"
    /\ pc = "return"
    /\ current.program = "ok"
    /\ \E n, m \in 1..Len(current.unit) :
           /\ n < m
           /\ current.unit[n].kind = "CallExpression"
           /\ current.unit[n].sem = "throws"
           /\ Range(n) \notin Spans(tokensBuilder)
           /\ Range(m) \in Spans(tokensBuilder)

\* C22: in a hybrid call nothing is pushed beyond the heuristic walk's
\* spans before the re-walk starts; the re-walk starts only with a type
\* checker and a source file, after the heuristic walk has claimed its
\* keys over the whole tree; and what the re-walk pushes is, once each,
\* the identifier of every function and call whose key is not claimed and
\* which the semantic rule makes positive, and nothing for a claimed key.
C22_RewalkOnlyUnclaimedOnce ==
    kind = "hybrid" =>
        /\ pc \in {"collectPromiseFunctions", "collectInstanceVariables",
                   "collectObjectLiterals", "visitHeuristic"} =>
               tokensBuilder = <<>>
        /\ pc \in {"createTypeScriptProgram", "visitTypeScript"} =>
               /\ Len(tokensBuilder) = heuristicPushed
               /\ heuristicTokens
                      = Hybrid_visitHeuristic(current.unit, Regs, 1,
                            [builder |-> <<>>, keys |-> {}]).keys
        /\ pc = "visitTypeScript" =>
               typeChecker # Undefined /\ tscSourceFile # Undefined
        /\ pc = "return" =>
               \A n \in 1..Len(current.unit) :
                   LET u == current.unit
                       id == IF u[n].kind = "CallExpression"
                             THEN CallIdentifier(u, n)
                             ELSE IF IsFunctionLike(u[n])
                             THEN DefinitionIdentifier(u, n)
                             ELSE 0
                       positive ==
                           IF u[n].kind = "CallExpression"
                           THEN Hybrid_isPromiseReturningCallTypeScript(u, n)
                           ELSE Hybrid_isFunctionReturningPromiseTypeScript(u, n)
                       pushes == { i \in (heuristicPushed + 1)..Len(tokensBuilder) :
                                     tokensBuilder[i] = Range(id) }
                   IN  id # 0 =>
                         Cardinality(pushes)
                           = IF /\ tscSourceFile # Undefined
                                /\ typeChecker # Undefined
                                /\ getNodeKey(id) \notin heuristicTokens
                                /\ positive
                             THEN 1
                             ELSE 0

\* a hybrid call whose re-walk skipped a claimed async function and
\* pushed the identifier of a function only the checker knows
C22_Witness ==
    /\ kind = "hybrid"
    /\ pc = "return"
    /\ Len(tokensBuilder) = heuristicPushed + 1
    /\ heuristicPushed >= 1
    /\ \E n, m \in 1..Len(current.unit) :
           /\ current.unit[n].kind = "FunctionDeclaration"
           /\ current.unit[n].async
           /\ getNodeKey(n) \in heuristicTokens
           /\ current.unit[m].kind = "FunctionDeclaration"
           /\ ~current.unit[m].async
           /\ getNodeKey(m) \notin heuristicTokens
           /\ tokensBuilder[Len(tokensBuilder)] = Range(m)

\* C23: every span a call is about to return is the range of an
\* identifier: the name of a function declaration or method, the
\* identifier a variable declaration binds to the arrow function or
\* function expression it initializes, or the callee identifier or
\* accessed member name of a call; nothing is returned for a function
\* without such a name or for a call with another kind of callee.
C23_SpansAreNamingIdentifiers ==
    pc = "return" =>
        \A i \in 1..Len(tokensBuilder) :
            \E n \in 1..Len(current.unit) :
                LET u == current.unit
                IN  \/ /\ u[n].kind \in {"FunctionDeclaration",
                                         "MethodDeclaration"}
                       /\ u[n].nameKind = "Identifier"
                       /\ tokensBuilder[i] = Range(n)
                    \/ /\ u[n].kind \in {"ArrowFunction", "FunctionExpression"}
                       /\ ParentIsVariableDeclaration(u, n)
                       /\ u[u[n].parent].nameKind = "Identifier"
                       /\ tokensBuilder[i] = Range(u[n].parent)
                    \/ /\ u[n].kind = "CallExpression"
                       /\ u[n].callee \in {"Identifier", "PropertyAccess"}
                       /\ tokensBuilder[i] = Range(n)

\* C24: the heuristic provider never builds or reads a type checker, and
\* the registries and spans it returns are those of the same text with
\* every type answer removed and no program available; a provider that
\* runs the heuristics and the checker together holds the complete
\* registries of its input when it starts to build the program.
C24_ContextOnlyAfterRegistries ==
    [][/\ kind = "heuristic" =>
              /\ typeChecker' = Undefined
              /\ tscSourceFile' = Undefined
              /\ pc' = "return" =>
                     LET u == current.unit
                         syntaxOnly ==
                             [unit |-> [i \in 1..Len(u) |->
                                          [u[i] EXCEPT !.sem = "noSignature"]],
                              program |-> "throws"]
                     IN  /\ Regs' = Heuristic_collect(syntaxOnly.unit)
                         /\ tokensBuilder' =
                                Heuristic_provideDocumentSemanticTokens(
                                    syntaxOnly)
       /\ Hybrid_CreateTypeScriptProgram =>
              Regs = Hybrid_collect(current.unit)
       /\ Legacy_CreateTypeScriptProgram =>
              Regs = Legacy_collect(current.unit,
                                    Legacy_createTypeScriptProgram(current))
      ]_vars

\* C25: once the caller has requested the cancellation of the running
\* call, the call classifies nothing more: no further step of it adds a
\* registry entry or a span.
C25_CancelledCallStops ==
    [][(pc # "idle" /\ (Len(returned) + 1) \in cancellationRequested) =>
           /\ Regs' = Regs
           /\ Len(tokensBuilder') <= Len(tokensBuilder)]_vars

C27_EmptyColorWritesNothing ==
    [][(color = "" /\
        (Activate \/ (OnDidChangeConfiguration /\
                      Head(events) = "promiseColorizer.color"))) =>
           /\ globalValue' = globalValue
           /\ events' = IF activated THEN Tail(events) ELSE <<>>]_vars

\* the extension is active, the setting is empty, every event has been
\* handled, and the user's customizations (with no rule of the
\* extension's) are in place
C27_Witness ==
    /\ activated
    /\ color = ""
    /\ events = <<>>
    /\ PromiseFunctionRule(globalValue) \notin Colors
    /\ DOMAIN globalValue = {"enabled", "rules", "[Monokai]"}

\* C28: when a call of the heuristic provider is about to return, every
\* named function declaration, and every variable bound to an arrow
\* function or function expression, whose identifier is among the spans
\* has its name in promiseReturningFunctions, and every bare call of
\* that name in the unit is among the spans too.
C28_DefinitionAndCallReportsAgree ==
    (kind = "heuristic" /\ pc = "return") =>
        LET u == current.unit
            named(n) ==
                \/ /\ u[n].kind = "FunctionDeclaration"
                   /\ u[n].nameKind = "Identifier"
                \/ /\ u[n].kind \in {"ArrowFunction", "FunctionExpression"}
                   /\ ParentIsVariableDeclaration(u, n)
                   /\ u[u[n].parent].nameKind = "Identifier"
            emitted(n) ==
                /\ Heuristic_isFunctionReturningPromise(u, Regs, n)
                /\ Range(DefinitionIdentifier(u, n)) \in Spans(tokensBuilder)
        IN  \A n \in 1..Len(u) :
                (named(n) /\ emitted(n)) =>
                    LET name == u[DefinitionIdentifier(u, n)].text
                    IN  /\ name \in promiseReturningFunctions
                        /\ \A c \in 1..Len(u) :
                               (/\ u[c].kind = "CallExpression"
                                /\ u[c].callee = "Identifier"
                                /\ u[c].text = name) =>
                                   Range(c) \in Spans(tokensBuilder)

\* C29: once the heuristic provider has collected the functions, every
\* method name m that promiseReturningMethods holds for a class name C
\* is the name of a promise-returning method declaration whose parent is
\* the class declaration named C.
C29_MethodsRegisteredUnderTheirOwnClass ==
    (kind = "heuristic" /\ pc \in {"collectInstanceVariables",
                                    "collectObjectLiterals", "visit",
                                    "return"}) =>
        LET u == current.unit
        IN  \A C \in DOMAIN promiseReturningMethods :
                \A m \in promiseReturningMethods[C] :
                    \E n \in 1..Len(u) :
                        /\ u[n].kind = "MethodDeclaration"
                        /\ u[n].text = m
                        /\ Heuristic_isFunctionReturningPromise(u, Regs, n)
                        /\ u[n].parent # 0
                        /\ u[u[n].parent].kind = "ClassDeclaration"
                        /\ u[u[n].parent].text = C

====
